---- MODULE Spec2Model ----
(***************************************************************************)
(* Batch-processing / retry / resume engine of the keyword processor.      *)
(*                                                                         *)
(*   ai_processor.py      retry_with_exponential_backoff, AIProcessor      *)
(*   product_validator.py product-validation stage driver                  *)
(*   brand_identifier.py  brand-identification stage driver                *)
(*   pipeline.py          facade running the stage scripts in sequence     *)
(*                                                                         *)
(* SpecRetry  one call of a decorated operation (the retry wrapper around  *)
(*            process_brand_batch, process_product_batch or an arbitrary   *)
(*            operation), from the first attempt to the return or raise.   *)
(* Spec       runs of the product-validation stage on one input file: the  *)
(*            batch loop over the decorated process_product_batch, the     *)
(*            progress record and the partial file, termination of the     *)
(*            process and the run after it (fresh or resumed).             *)
(* SpecBrand  runs of the brand-identification stage likewise.             *)
(* SpecWindows  the performance lists of one AIProcessor under any         *)
(*            sequence of log_memory_usage / log_batch_performance calls.  *)
(* SpecPartial  the partial-result file as CSV text under any sequence of  *)
(*            save_partial_results / read_partial_results calls.           *)
(* SpecLive   one run of the product-validation stage under fairness.      *)
(* SpecPipeline  pipeline.main running the three stage scripts in turn.    *)
(* SpecFault  runs of the product-validation stage in which writes of the  *)
(*            progress file, the partial file and the final file and the   *)
(*            read-back of the partial file can fail, and the run after a  *)
(*            failed one.                                                  *)
(***************************************************************************)
EXTENDS Integers, Sequences, FiniteSets, TLC

VARIABLES
    \* ---- the decorated call (retry_with_exponential_backoff.wrapper)
    func,           \* the wrapped operation: "brand", "product" or "opaque"
    policy,         \* decorator arguments [max_retries, base_delay, max_delay]
    batch,          \* the argument of the call: the batch's keywords
    attempt,        \* loop variable of the wrapper
    wpc,            \* position: "idle", "call", "caught", "sleep", "returned", "raised"
    exc,            \* the exception in flight or raised ("none" when there is none)
    delay,          \* the delay computed for the pending sleep
    ret,            \* the value returned by the call
    \* ---- AIProcessor fields
    error_counts,
    rate_limit_occurrences,
    total_wait_time,
    memory_usage,   \* the memory samples kept, oldest first
    processing_speeds,  \* the throughput readings kept, oldest first
    batch_times,    \* the batch durations kept, oldest first
    \* ---- history of the current call (not program state)
    calls,          \* invocations of the wrapped operation
    sleeps,         \* delays passed to asyncio.sleep, in order
    kinds,          \* exception kinds the wrapped operation raised
    lastSig,        \* <<sig>>: the current attempt's endpoint call failed with sig
    lastResp,       \* <<text>>: the current attempt's endpoint call answered text
    ec0,            \* the counters when the call started
    \* ---- a stage run (main of product_validator.py / brand_identifier.py)
    pc,             \* position of the stage driver ("off": no stage is running)
    products,       \* the rows of the input file: their search terms, in order
    existing_progress,  \* <<>> (None) or <<the ProgressRecord loaded>>
    start_batch,
    i,              \* batch index of the loop
    processed_count,
    all_brands,     \* brand_identifier.py: the labels so far, each with the
                    \* input row it was computed for
    \* ---- files
    progress_file,  \* <<>> (no file) or <<the ProgressRecord>>
    partial_file,   \* <<>> (no file) or <<the data rows, in file order>>
    final_file,     \* <<>> (no file) or <<the data rows, in file order>>
    \* ---- history of the scenario (not program state)
    crashes,        \* terminations of a stage run so far
    failures,       \* failed endpoint calls so far
    faults,         \* failed writes to the progress / partial file so far
    window,         \* batches whose rows were appended when a run was
                    \* terminated before their ProgressRecord was saved
    matched,        \* the run resumed from a ProgressRecord of k batches and
                    \* a partial file holding exactly the rows of those batches
    visited,        \* batch indices handed to process_batch by this run
    requests,       \* requests sent to the completion endpoint for the
                    \* batch in hand
    pauses,         \* batch indices after which this run slept the
                    \* inter-batch delay
    logged,         \* log_memory_usage / log_batch_performance calls of
                    \* this process so far
    \* ---- the partial-result file as CSV text
    csv_file,       \* <<>> (no file) or <<the lines, each a tuple of cells>>
    schema,         \* the fieldnames the stage passes to save_partial_results
    stored,         \* history: the result dicts handed to save_partial_results
    read_result,    \* <<>> or <<fieldnames, rows>>: the last read_partial_results
    \* ---- the pipeline facade (pipeline.py)
    ppc,            \* position of pipeline.main ("off": no pipeline is running)
    reported,       \* history: what each stage started so far reported, in order
    exit_code       \* <<>> or <<the exit code of the pipeline process>>

wrapVars == <<func, policy, batch, attempt, wpc, exc, delay, ret>>
procVars == <<error_counts, rate_limit_occurrences, total_wait_time>>
perfVars == <<memory_usage, processing_speeds, batch_times, logged>>
histVars == <<calls, sleeps, kinds, lastSig, lastResp, ec0>>
stageVars ==
    <<pc, products, existing_progress, start_batch, i, processed_count, all_brands>>
fileVars == <<progress_file, partial_file, final_file>>
scenVars == <<crashes, failures, faults, window, matched, visited, requests, pauses>>
csvVars == <<csv_file, schema, stored, read_result>>
pipeVars == <<ppc, reported, exit_code>>
vars ==
    <<wrapVars, procVars, perfVars, histVars, stageVars, fileVars, scenVars, csvVars,
      pipeVars>>

----------------------------------------------------------------------------
(* Bounds *)

MaxRetries == 3      \* max_retries ranges over 0..MaxRetries (and the deployed 5)
MaxBase == 2         \* base_delay ranges over 1..MaxBase
MaxCap == 3          \* a max_delay small enough to cap the delays (beside the deployed 30)
MaxBatch == 2        \* items of a batch handed to one call
MaxPairs == 3        \* pairs / segments of one response text
MaxMarkers == 2      \* indications one failure signal carries
MaxItems == 3        \* rows of a stage's input file
MaxCrashes == 1      \* terminations of a stage run in one scenario
MaxFailures == 6     \* failed endpoint calls in one scenario of a stage
MaxFaults == 2       \* failed file writes in one scenario of a stage
MaxMemoryLogs == 102 \* log_memory_usage calls on one AIProcessor
MaxBatchLogs == 52   \* log_batch_performance calls on one AIProcessor
MaxStoredRows == 2   \* data rows of a partial-result file written as text

(* The configured batch size (BATCH_SIZE = 20 in product_validator.py,     *)
(* 5 in brand_identifier.py), scaled down.                                 *)
BATCH_SIZE == 2

(* The policy the two batch operations are decorated with. *)
DEPLOYED_MAX_RETRIES == 5
DEPLOYED_BASE_DELAY == 1
DEPLOYED_MAX_DELAY == 30

(* The retention of the performance lists. *)
MEMORY_WINDOW == 100
PERFORMANCE_WINDOW == 50

(* Mutant: the batch operations are decorated with one retry more. *)
DeployedOneRetryMore ==
    [max_retries |-> DEPLOYED_MAX_RETRIES + 1, base_delay |-> DEPLOYED_BASE_DELAY,
     max_delay |-> DEPLOYED_MAX_DELAY]

Deployed ==
    [max_retries |-> DEPLOYED_MAX_RETRIES, base_delay |-> DEPLOYED_BASE_DELAY,
     max_delay |-> DEPLOYED_MAX_DELAY]

Policies ==
    [max_retries : 0..MaxRetries, base_delay : 1..MaxBase, max_delay : {MaxCap}]
        \cup {Deployed}

----------------------------------------------------------------------------
(* Helpers *)

Min(a, b) == IF a <= b THEN a ELSE b

RECURSIVE Pow2(_)
Pow2(k) == IF k = 0 THEN 1 ELSE 2 * Pow2(k - 1)

RECURSIVE SumSeq(_)
SumSeq(s) == IF s = <<>> THEN 0 ELSE Head(s) + SumSeq(Tail(s))

SeqsUpTo(S, lo, hi) == UNION {[1..k -> S] : k \in lo..hi}

----------------------------------------------------------------------------
(* Exceptions and failure signals *)

RATE_LIMIT_HIT == "RATE_LIMIT_HIT"
AUTH_ERROR == "AUTH_ERROR"
NETWORK_ERROR == "NETWORK_ERROR"
FILE_SYSTEM_ERROR == "FILE_SYSTEM_ERROR"
OtherError == "Exception"

Retryable == {RATE_LIMIT_HIT, NETWORK_ERROR, AUTH_ERROR}

(* What str(e) of an endpoint failure can contain, as written in the       *)
(* message: the phrases the classification looks for, and a connectivity   *)
(* failure worded without any of them.  A signal is the set of those the   *)
(* message contains.                                                       *)
Markers ==
    {"Rate limit", "429", "authentication", "401", "network", "timeout",
     "Connection error"}

(* str(e).lower() on the phrases of a signal *)
LowerSig(sig) ==
    {CASE m = "Rate limit" -> "rate limit"
       [] m = "Connection error" -> "connection error"
       [] OTHER -> m : m \in sig}
Signals == {sig \in SUBSET Markers : Cardinality(sig) <= MaxMarkers}

(* The failures the endpoint answers a stage run with: one retryable, one  *)
(* without any indication.                                                 *)
StageSignals == {{"429"}, {}}

(* The signals an endpoint failure is drawn from. *)
FailureSignals == IF pc = "off" THEN Signals ELSE StageSignals

ErrorKeys == {"rate_limit", "network", "auth", "parsing", "file_system"}
ZeroCounts == [k \in ErrorKeys |-> 0]

Bump(ec, k) == [ec EXCEPT ![k] = @ + 1]

(* AIProcessor.__init__: the three performance lists start empty. *)
NoLogs ==
    /\ memory_usage = <<>>
    /\ processing_speeds = <<>>
    /\ batch_times = <<>>
    /\ logged = [memory |-> 0, batch |-> 0]

(* No partial-result file has been written or read as text. *)
NoCsv ==
    /\ csv_file = <<>>
    /\ schema = <<>>
    /\ stored = <<>>
    /\ read_result = <<>>

(* No pipeline process is running. *)
NoPipeline ==
    /\ ppc = "off"
    /\ reported = <<>>
    /\ exit_code = <<>>

(* Mutant: the trim keeps the oldest entries. *)
KeepFirst(w, n) == IF Len(w) > n THEN SubSeq(w, 1, n) ELSE w

(* if len(w) > n: w = w[-n:] *)
KeepLast(w, n) == IF Len(w) > n THEN SubSeq(w, Len(w) - n + 1, Len(w)) ELSE w

(* log_memory_usage: append the sample, keep the last 100.  A sample is    *)
(* identified by the ordinal of the call that took it.                     *)
LoggedMemory(w, sample) == KeepLast(Append(w, sample), MEMORY_WINDOW)

(* log_batch_performance: append to both lists, keep the last 50 of each.  *)
(* A reading is identified by the ordinal of the call that made it.        *)
LoggedPerformance(w, reading) == KeepLast(Append(w, reading), PERFORMANCE_WINDOW)

LogMemory ==
    /\ memory_usage' = LoggedMemory(memory_usage, logged.memory + 1)
    /\ logged' = [logged EXCEPT !.memory = @ + 1]
    /\ UNCHANGED <<processing_speeds, batch_times>>

LogPerformance ==
    /\ processing_speeds' = LoggedPerformance(processing_speeds, logged.batch + 1)
    /\ batch_times' = LoggedPerformance(batch_times, logged.batch + 1)
    /\ logged' = [logged EXCEPT !.batch = @ + 1]
    /\ UNCHANGED memory_usage

(* Mutant: the network test comes first. *)
ClassifyNetworkFirst(sig) ==
    IF "network" \in LowerSig(sig) \/ "timeout" \in LowerSig(sig) THEN NETWORK_ERROR
    ELSE IF "rate limit" \in LowerSig(sig) \/ "429" \in sig THEN RATE_LIMIT_HIT
    ELSE IF "authentication" \in LowerSig(sig) \/ "401" \in sig THEN AUTH_ERROR
    ELSE "parsing"

(* Mutant: a failure without any indication is taken for a network error. *)
ClassifyUnknownAsNetwork(sig) ==
    IF "rate limit" \in LowerSig(sig) \/ "429" \in sig THEN RATE_LIMIT_HIT
    ELSE IF "authentication" \in LowerSig(sig) \/ "401" \in sig THEN AUTH_ERROR
    ELSE NETWORK_ERROR

(* The except clause of process_brand_batch / process_product_batch:       *)
(* the kind raised for a signal, "parsing" when the failure is absorbed.   *)
Classify(sig) ==
    IF "rate limit" \in LowerSig(sig) \/ "429" \in sig THEN RATE_LIMIT_HIT
    ELSE IF "authentication" \in LowerSig(sig) \/ "401" \in sig THEN AUTH_ERROR
    ELSE IF "network" \in LowerSig(sig) \/ "timeout" \in LowerSig(sig)
    THEN NETWORK_ERROR
    ELSE "parsing"

(* Mutant: authentication failures are counted as network failures. *)
CounterOfAuthAsNetwork(kind) ==
    CASE kind = RATE_LIMIT_HIT -> "rate_limit"
      [] kind = AUTH_ERROR -> "network"
      [] kind = NETWORK_ERROR -> "network"
      [] OTHER -> "parsing"

(* The error_counts key each branch of the except clause increments. *)
CounterOf(kind) ==
    CASE kind = RATE_LIMIT_HIT -> "rate_limit"
      [] kind = AUTH_ERROR -> "auth"
      [] kind = NETWORK_ERROR -> "network"
      [] OTHER -> "parsing"

----------------------------------------------------------------------------
(* Response texts and the two parsers *)

(* Batch items: search terms. *)
Keywords == {"Nike", "sock"}

(* Keywords a response can name: a case variant of an item, a stranger. *)
RespKeywords == {"nike", "hat"}

(* str.lower() on the strings of the model *)
Lower(s) ==
    CASE s = "Nike" -> "nike"
      [] s = "NIKE" -> "nike"
      [] s = "Sock" -> "sock"
      [] OTHER -> s

Brands == {"no"}

ERROR_PARSING == "ERROR_PARSING"
ERROR_API == "ERROR_API"

(* One piece of result.split(','), stripped: without a colon, or the       *)
(* stripped parts before and after the first colon.                        *)
BrandPairs ==
    {[colon |-> FALSE, keyword |-> "", brand |-> ""]}
        \cup [colon : {TRUE}, keyword : RespKeywords, brand : Brands]

(* str.split never returns an empty list: a response has at least one pair *)
BrandResponses == SeqsUpTo(BrandPairs, 1, MaxPairs)

(* keywords[i] if i < len(keywords) else f"unknown_{i}"  (i is 0-based)    *)
FallbackTerm(keywords, ix) ==
    IF ix <= Len(keywords) THEN keywords[ix] ELSE "unknown_" \o ToString(ix - 1)

(* Mutant: the match is case-sensitive. *)
OriginalKeywordExact(keywords, kw) ==
    LET hits == {j \in 1..Len(keywords) : keywords[j] = kw}
    IN IF hits = {} THEN ""
       ELSE keywords[CHOOSE j \in hits : \A h \in hits : j <= h]

(* The first original keyword equal to kw ignoring case; "" is None.       *)
OriginalKeyword(keywords, kw) ==
    LET hits == {j \in 1..Len(keywords) : Lower(keywords[j]) = Lower(kw)}
    IN IF hits = {} THEN ""
       ELSE keywords[CHOOSE j \in hits : \A h \in hits : j <= h]

BrandRecord(keywords, pairs, ix) ==
    LET pair == pairs[ix]
        orig == OriginalKeyword(keywords, pair.keyword)
    IN IF pair.colon
       THEN IF orig # ""
            THEN [term |-> orig, brand |-> pair.brand]
            ELSE [term |-> FallbackTerm(keywords, ix), brand |-> pair.brand]
       ELSE [term |-> FallbackTerm(keywords, ix), brand |-> ERROR_PARSING]

(* while len(results) < len(keywords): append ERROR_PARSING                *)
PadBrand(keywords, results) ==
    results \o [j \in 1..(Len(keywords) - Len(results)) |->
                  [term |-> keywords[Len(results) + j], brand |-> ERROR_PARSING]]

(* Mutant: entries without a colon are skipped. *)
ParseBrandSkipsMalformed(keywords, pairs) ==
    LET kept == SelectSeq([ix \in 1..Len(pairs) |-> [at |-> ix, pair |-> pairs[ix]]],
                          LAMBDA e : e.pair.colon)
    IN PadBrand(keywords,
                [k \in 1..Len(kept) |-> BrandRecord(keywords, pairs, kept[k].at)])

ParseBrand(keywords, pairs) ==
    PadBrand(keywords, [ix \in 1..Len(pairs) |-> BrandRecord(keywords, pairs, ix)])

BrandDefaults(keywords) ==
    [ix \in 1..Len(keywords) |-> [term |-> keywords[ix], brand |-> ERROR_API]]

(* A rating token after strip(): an integer literal, or text int() rejects *)
Tok(v) == [num |-> TRUE, val |-> v]
NaN == [num |-> FALSE, val |-> 0]

RatingLists ==
    { <<Tok(1), Tok(2), Tok(3), Tok(4), Tok(0), Tok(0), Tok(0)>>,
      <<Tok(9), Tok(2), Tok(3), Tok(4), Tok(0), Tok(0), Tok(0)>>,
      <<Tok(1), Tok(2), Tok(3), Tok(4), Tok(2), Tok(0), Tok(0)>>,
      <<Tok(1), Tok(2), Tok(3), Tok(4), Tok(0), Tok(0)>>,
      <<Tok(1), NaN, Tok(3), Tok(4), Tok(0), Tok(0), Tok(0)>> }

(* One piece of result.split(';'): without a colon, or the stripped tokens *)
(* of the part after the first colon.                                      *)
ProductSegments ==
    {[colon |-> FALSE, ratings |-> <<>>]} \cup [colon : {TRUE}, ratings : RatingLists]

(* A well-formed segment. *)
ValidSegment ==
    [colon |-> TRUE,
     ratings |-> <<Tok(1), Tok(2), Tok(3), Tok(4), Tok(0), Tok(0), Tok(0)>>]

(* Responses of up to MaxPairs segments, at most one of them not           *)
(* well-formed (any kind of malformation, at any position).                *)
ProductResponses ==
    {t \in SeqsUpTo(ProductSegments, 1, MaxPairs) :
        Cardinality({ix \in 1..Len(t) : t[ix] # ValidSegment}) <= 1}

(* The texts the endpoint answers a stage run with: one garbled segment,   *)
(* or valid tuples, fewer or more than the batch has items.                *)
StageSegments ==
    {[colon |-> FALSE, ratings |-> <<>>],
     [colon |-> TRUE,
      ratings |-> <<Tok(1), Tok(2), Tok(3), Tok(4), Tok(0), Tok(0), Tok(0)>>]}

StageResponses ==
    {t \in SeqsUpTo(StageSegments, 1, MaxPairs) :
        Len(t) = 1 \/ \A ix \in 1..Len(t) : t[ix].colon}

(* The texts a reply to process_product_batch is drawn from. *)
ReplyTexts == IF pc = "off" THEN ProductResponses ELSE StageResponses

Rating(a, b, c, d, e, f, g) ==
    [Seasonal |-> a, Specificity |-> b, Commodity |-> c, SubscribeSave |-> d,
     Gated |-> e, Electronics_Batteries |-> f, Insurance_Gov |-> g]

DefaultRating == Rating(3, 3, 3, 2, 0, 0, 0)

(* Mutant: the three flags are allowed the scale of the four ratings. *)
InRangeAllScale(r) == \A k \in 1..7 : 0 <= r[k].val /\ r[k].val <= 5

InRange(r) ==
    /\ \A k \in 1..4 : 0 <= r[k].val /\ r[k].val <= 5
    /\ \A k \in 5..7 : 0 <= r[k].val /\ r[k].val <= 1

ProductRecord(seg) ==
    IF seg.colon /\ Len(seg.ratings) = 7
    THEN IF (\A k \in 1..7 : seg.ratings[k].num) /\ InRange(seg.ratings)
         THEN Rating(seg.ratings[1].val, seg.ratings[2].val, seg.ratings[3].val,
                     seg.ratings[4].val, seg.ratings[5].val, seg.ratings[6].val,
                     seg.ratings[7].val)
         ELSE DefaultRating
    ELSE DefaultRating

PadProduct(search_terms, results) ==
    results \o [j \in 1..(Len(search_terms) - Len(results)) |-> DefaultRating]

ParseProduct(search_terms, segs) ==
    PadProduct(search_terms, [ix \in 1..Len(segs) |-> ProductRecord(segs[ix])])

ProductDefaults(search_terms) == [ix \in 1..Len(search_terms) |-> DefaultRating]

----------------------------------------------------------------------------
(* The wrapped operations: one attempt of process_brand_batch,             *)
(* process_product_batch, or of an arbitrary decorated operation.          *)

(* The except clause shared (as duplicated code) by both batch operations: *)
(* count the failure under its kind, raise a retryable kind to the         *)
(* wrapper, absorb anything else into a full batch of default records.     *)
HandleFailure(sig, defaults) ==
    LET kind == Classify(sig)
    IN /\ error_counts' = Bump(error_counts, CounterOf(kind))
       /\ rate_limit_occurrences' =
             IF kind = RATE_LIMIT_HIT THEN rate_limit_occurrences + 1
             ELSE rate_limit_occurrences
       /\ IF kind \in Retryable
          THEN /\ exc' = kind
               /\ kinds' = kinds \cup {kind}
               /\ wpc' = "caught"
               /\ ret' = ret
          ELSE /\ ret' = defaults
               /\ wpc' = "returned"
               /\ UNCHANGED <<exc, kinds>>

(* Mutant: an entry without a colon raises out of the operation. *)
BrandReplyRaisesOnGarbled ==
    /\ wpc = "call" /\ func = "brand"
    /\ \E resp \in BrandResponses :
          /\ lastResp' = <<resp>>
          /\ IF \E ix \in 1..Len(resp) : ~resp[ix].colon
             THEN /\ exc' = OtherError
                  /\ kinds' = kinds \cup {OtherError}
                  /\ wpc' = "caught"
                  /\ ret' = ret
                  /\ UNCHANGED perfVars
             ELSE /\ ret' = ParseBrand(batch, resp)
                  /\ wpc' = "returned"
                  /\ LogPerformance
                  /\ UNCHANGED <<exc, kinds>>
    /\ calls' = calls + 1
    /\ requests' = requests + 1
    /\ UNCHANGED <<pipeVars, csvVars, func, policy, batch, attempt, delay, procVars, sleeps, lastSig, ec0,
                   stageVars, fileVars, crashes, failures, faults, window, matched, visited, pauses>>

(* The endpoint answered with text: parse it and return the records. *)
BrandReply ==
    /\ wpc = "call" /\ func = "brand"
    /\ LogPerformance
    /\ \E resp \in BrandResponses :
          /\ ret' = ParseBrand(batch, resp)
          /\ lastResp' = <<resp>>
    /\ wpc' = "returned"
    /\ calls' = calls + 1
    /\ requests' = requests + 1
    /\ UNCHANGED <<pipeVars, csvVars, func, policy, batch, attempt, exc, delay, procVars, sleeps, kinds, lastSig, ec0,
                   stageVars, fileVars, crashes, failures, faults, window, matched, visited, pauses>>

(* The endpoint call failed with a signal. *)
BrandFailure ==
    /\ wpc = "call" /\ func = "brand"
    /\ pc = "off" \/ failures < MaxFailures
    /\ failures' = failures + 1
    /\ \E sig \in FailureSignals :
          /\ HandleFailure(sig, BrandDefaults(batch))
          /\ lastSig' = <<sig>>
          /\ lastResp' = <<>>
    /\ calls' = calls + 1
    /\ requests' = requests + 1
    /\ UNCHANGED <<pipeVars, csvVars, perfVars, func, policy, batch, attempt, delay, total_wait_time, sleeps, ec0,
                   stageVars, fileVars, crashes, faults, pauses, window, matched, visited>>

ProductReply ==
    /\ wpc = "call" /\ func = "product"
    /\ LogPerformance
    /\ \E resp \in ReplyTexts :
          /\ ret' = ParseProduct(batch, resp)
          /\ lastResp' = <<resp>>
    /\ wpc' = "returned"
    /\ calls' = calls + 1
    /\ requests' = requests + 1
    /\ UNCHANGED <<pipeVars, csvVars, func, policy, batch, attempt, exc, delay, procVars, sleeps, kinds, lastSig, ec0,
                   stageVars, fileVars, crashes, failures, faults, window, matched, visited, pauses>>

ProductFailure ==
    /\ wpc = "call" /\ func = "product"
    /\ pc = "off" \/ failures < MaxFailures
    /\ failures' = failures + 1
    /\ \E sig \in FailureSignals :
          /\ HandleFailure(sig, ProductDefaults(batch))
          /\ lastSig' = <<sig>>
          /\ lastResp' = <<>>
    /\ calls' = calls + 1
    /\ requests' = requests + 1
    /\ UNCHANGED <<pipeVars, csvVars, perfVars, func, policy, batch, attempt, delay, total_wait_time, sleeps, ec0,
                   stageVars, fileVars, crashes, faults, pauses, window, matched, visited>>

(* An arbitrary decorated operation returns. *)
OpaqueReturn ==
    /\ wpc = "call" /\ func = "opaque"
    /\ wpc' = "returned"
    /\ calls' = calls + 1
    /\ UNCHANGED <<pipeVars, csvVars, perfVars, func, policy, batch, attempt, exc, delay, ret, procVars, sleeps, kinds, lastSig, lastResp, ec0,
                   stageVars, fileVars, scenVars>>

(* An arbitrary decorated operation raises: one of the three kinds the     *)
(* wrapper knows, or any other exception.                                  *)
OpaqueRaise ==
    /\ wpc = "call" /\ func = "opaque"
    /\ \E e \in Retryable \cup {OtherError} :
          /\ exc' = e
          /\ kinds' = kinds \cup {e}
    /\ wpc' = "caught"
    /\ calls' = calls + 1
    /\ UNCHANGED <<pipeVars, csvVars, perfVars, func, policy, batch, attempt, delay, ret, procVars, sleeps, lastSig, lastResp, ec0,
                   stageVars, fileVars, scenVars>>

----------------------------------------------------------------------------
(* retry_with_exponential_backoff.wrapper *)

(* Mutant: the delay is not clamped at max_delay. *)
BackoffUncapped(p, a) == p.base_delay * Pow2(a)

(* delay = min(base_delay * (2 ** attempt), max_delay) *)
Backoff(p, a) == Min(p.base_delay * Pow2(a), p.max_delay)

(* Mutant: off by one, the last attempt sleeps and retries as well. *)
MayRetryOffByOne(p, a) == a <= p.max_retries

(* if attempt < max_retries *)
MayRetry(p, a) == a < p.max_retries

(* except RATE_LIMIT_HIT / except (NETWORK_ERROR, AUTH_ERROR): compute the *)
(* delay and go to sleep, or re-raise on the last attempt.                 *)
CatchRetryable ==
    /\ wpc = "caught" /\ exc \in Retryable
    /\ IF MayRetry(policy, attempt)
       THEN /\ delay' = Backoff(policy, attempt)
            /\ wpc' = "sleep"
       ELSE /\ wpc' = "raised"
            /\ delay' = delay
    /\ UNCHANGED <<pipeVars, csvVars, perfVars, func, policy, batch, attempt, exc, ret, procVars, histVars,
                   stageVars, fileVars, scenVars>>

(* Mutant: any other exception is backed off and retried like the rest. *)
CatchOtherRetried ==
    /\ wpc = "caught" /\ exc \notin Retryable
    /\ IF MayRetry(policy, attempt)
       THEN /\ delay' = Backoff(policy, attempt)
            /\ wpc' = "sleep"
       ELSE /\ wpc' = "raised"
            /\ delay' = delay
    /\ UNCHANGED <<pipeVars, csvVars, perfVars, func, policy, batch, attempt, exc, ret, procVars, histVars,
                   stageVars, fileVars, scenVars>>

(* except Exception: raise e *)
CatchOther ==
    /\ wpc = "caught" /\ exc \notin Retryable
    /\ wpc' = "raised"
    /\ UNCHANGED <<pipeVars, csvVars, perfVars, func, policy, batch, attempt, exc, delay, ret, procVars, histVars,
                   stageVars, fileVars, scenVars>>

(* await asyncio.sleep(delay) is over: the loop goes to the next attempt.  *)
(* Nothing but the sleep itself happens here.                              *)
SleepDone ==
    /\ wpc = "sleep"
    /\ sleeps' = Append(sleeps, delay)
    /\ attempt' = attempt + 1
    /\ exc' = "none"
    /\ lastSig' = <<>>
    /\ lastResp' = <<>>
    /\ wpc' = "call"
    /\ UNCHANGED <<pipeVars, csvVars, perfVars, func, policy, batch, delay, ret, procVars, calls, kinds, ec0,
                   stageVars, fileVars, scenVars>>


----------------------------------------------------------------------------
(* SpecRetry: one decorated call on a fresh AIProcessor *)

(* No stage driver around the call, no files. *)
NoStage ==
    /\ pc = "off"
    /\ products = <<>>
    /\ existing_progress = <<>>
    /\ start_batch = 0
    /\ i = 0
    /\ processed_count = 0
    /\ all_brands = <<>>
    /\ progress_file = <<>>
    /\ partial_file = <<>>
    /\ final_file = <<>>
    /\ crashes = 0
    /\ failures = 0
    /\ faults = 0
    /\ window = {}
    /\ matched = FALSE
    /\ visited = <<>>
    /\ requests = 0
    /\ pauses = {}

InitRetry ==
    /\ func \in {"brand", "product", "opaque"}
    /\ policy \in Policies
    /\ batch \in SeqsUpTo(Keywords, 1, MaxBatch)
    /\ func = "opaque" => batch = <<"sock">>
    /\ attempt = 0
    /\ wpc = "call"
    /\ exc = "none"
    /\ delay = 0
    /\ ret = <<>>
    /\ error_counts = ZeroCounts
    /\ rate_limit_occurrences = 0
    /\ total_wait_time = 0
    /\ calls = 0
    /\ sleeps = <<>>
    /\ kinds = {}
    /\ lastSig = <<>>
    /\ lastResp = <<>>
    /\ ec0 = ZeroCounts
    /\ NoLogs
    /\ NoCsv
    /\ NoPipeline
    /\ NoStage

NextRetry ==
    \/ BrandReply
    \/ BrandFailure
    \/ ProductReply
    \/ ProductFailure
    \/ OpaqueReturn
    \/ OpaqueRaise
    \/ CatchRetryable
    \/ CatchOther
    \/ SleepDone

SpecRetry == InitRetry /\ [][NextRetry]_vars

-----------------------------------------------------------------------------
(* The performance lists of one AIProcessor under any sequence of          *)
(* log_memory_usage and log_batch_performance calls.                       *)

InitWindows ==
    /\ func = "product"
    /\ policy = Deployed
    /\ batch = <<>>
    /\ attempt = 0
    /\ wpc = "idle"
    /\ exc = "none"
    /\ delay = 0
    /\ ret = <<>>
    /\ error_counts = ZeroCounts
    /\ rate_limit_occurrences = 0
    /\ total_wait_time = 0
    /\ calls = 0
    /\ sleeps = <<>>
    /\ kinds = {}
    /\ lastSig = <<>>
    /\ lastResp = <<>>
    /\ ec0 = ZeroCounts
    /\ NoLogs
    /\ NoCsv
    /\ NoPipeline
    /\ NoStage

LogMemoryUsage ==
    /\ pc = "off" /\ wpc = "idle"
    /\ logged.memory < MaxMemoryLogs
    /\ LogMemory
    /\ UNCHANGED <<pipeVars, csvVars, wrapVars, procVars, histVars, stageVars, fileVars, scenVars>>

LogBatchPerformance ==
    /\ pc = "off" /\ wpc = "idle"
    /\ logged.batch < MaxBatchLogs
    /\ LogPerformance
    /\ UNCHANGED <<pipeVars, csvVars, wrapVars, procVars, histVars, stageVars, fileVars, scenVars>>

NextWindows ==
    \/ LogMemoryUsage
    \/ LogBatchPerformance

SpecWindows == InitWindows /\ [][NextWindows]_vars

(* w holds the last min(n, cap) of the entries 1..n, oldest first. *)
MostRecent(w, n, cap) ==
    /\ Len(w) = Min(n, cap)
    /\ \A k \in 1..Len(w) : w[k] = n - Len(w) + k

(* C31: after any sequence of log_memory_usage and log_batch_performance   *)
(* calls the memory list holds at most 100 entries and the throughput and  *)
(* batch-time lists at most 50 each, and each list holds the most recent   *)
(* entries in the order they were logged.                                  *)
C31_WindowsHoldMostRecent ==
    /\ Len(memory_usage) <= MEMORY_WINDOW
    /\ Len(processing_speeds) <= PERFORMANCE_WINDOW
    /\ Len(batch_times) <= PERFORMANCE_WINDOW
    /\ MostRecent(memory_usage, logged.memory, MEMORY_WINDOW)
    /\ MostRecent(processing_speeds, logged.batch, PERFORMANCE_WINDOW)
    /\ MostRecent(batch_times, logged.batch, PERFORMANCE_WINDOW)

(* Both trims have dropped entries. *)
C31_Witness ==
    /\ logged.memory > MEMORY_WINDOW + 1
    /\ logged.batch > PERFORMANCE_WINDOW + 1

-----------------------------------------------------------------------------
(* The partial-result file as CSV text: save_partial_results and           *)
(* read_partial_results of one AIProcessor.  A line is the tuple of its    *)
(* cells; the first line of a file is the header.                          *)

(* The fieldnames a stage passes on every save (the same list in the       *)
(* success path and in the per-batch handler).                             *)
Schemas == {<<"Search Term", "Seasonal">>, <<"Search Term", "Seasonal", "Jan">>}

(* The fieldnames a caller of read_partial_results asks for. *)
ReadSchemas ==
    {<<"Search Term">>, <<"Seasonal", "Search Term">>, <<"Search Term", "Seasonal", "Jan">>,
     <<"Seasonal", "Brand">>}

Cells == {"sock", "3"}

FieldSet(fields) == {fields[k] : k \in 1..Len(fields)}

(* csv.DictWriter.writerow: the values of the dict in fieldnames order. *)
CsvLine(result, fieldnames) == [k \in 1..Len(fieldnames) |-> result[fieldnames[k]]]

(* Mutant: the header is written on every call. *)
WriteCsvHeaderAlways(file, results, fieldnames) ==
    LET lines == <<fieldnames>> \o [r \in 1..Len(results) |-> CsvLine(results[r], fieldnames)]
    IN IF file = <<>> THEN <<lines>> ELSE <<file[1] \o lines>>

(* save_partial_results: mode 'w' and a header when there is no file, mode *)
(* 'a' and no header otherwise; then writer.writerows(results).            *)
WriteCsv(file, results, fieldnames) ==
    LET lines == [r \in 1..Len(results) |-> CsvLine(results[r], fieldnames)]
    IN IF file = <<>> THEN <<<<fieldnames>> \o lines>> ELSE <<file[1] \o lines>>

(* csv.DictReader: a line becomes the dict of its cells under the header's *)
(* names; clean_row[field] = row.get(field, '') for the fields asked for.  *)
ReadCsv(file, fieldnames) ==
    IF file = <<>> THEN <<>>
    ELSE LET header == file[1][1]
             data == Tail(file[1])
             At(f) == CHOOSE k \in 1..Len(header) : header[k] = f
         IN [r \in 1..Len(data) |->
                [f \in FieldSet(fieldnames) |->
                    IF f \in FieldSet(header) THEN data[r][At(f)] ELSE ""]]

InitPartial ==
    /\ func = "product"
    /\ policy = Deployed
    /\ batch = <<>>
    /\ attempt = 0
    /\ wpc = "idle"
    /\ exc = "none"
    /\ delay = 0
    /\ ret = <<>>
    /\ error_counts = ZeroCounts
    /\ rate_limit_occurrences = 0
    /\ total_wait_time = 0
    /\ calls = 0
    /\ sleeps = <<>>
    /\ kinds = {}
    /\ lastSig = <<>>
    /\ lastResp = <<>>
    /\ ec0 = ZeroCounts
    /\ memory_usage = <<>>
    /\ processing_speeds = <<>>
    /\ batch_times = <<>>
    /\ logged = [memory |-> 0, batch |-> 0]
    /\ NoStage
    /\ csv_file = <<>>
    /\ schema \in Schemas
    /\ stored = <<>>
    /\ read_result = <<>>
    /\ NoPipeline

SavePartialResults ==
    /\ pc = "off" /\ wpc = "idle" /\ schema # <<>>
    /\ \E results \in SeqsUpTo([FieldSet(schema) -> Cells], 1, BATCH_SIZE) :
          /\ Len(stored) + Len(results) <= MaxStoredRows
          /\ csv_file' = WriteCsv(csv_file, results, schema)
          /\ stored' = stored \o results
    /\ LogMemory
    /\ UNCHANGED <<pipeVars, wrapVars, procVars, histVars, stageVars, fileVars, scenVars, schema,
                   read_result>>

ReadPartialResults ==
    /\ pc = "off" /\ wpc = "idle" /\ schema # <<>>
    /\ \E fieldnames \in ReadSchemas :
          read_result' = <<fieldnames, ReadCsv(csv_file, fieldnames)>>
    /\ UNCHANGED <<pipeVars, wrapVars, procVars, perfVars, histVars, stageVars, fileVars, scenVars,
                   csv_file, schema, stored>>

NextPartial ==
    \/ SavePartialResults
    \/ ReadPartialResults

SpecPartial == InitPartial /\ [][NextPartial]_vars

(* s is an initial segment of t. *)
IsPrefix(s, t) == Len(s) <= Len(t) /\ SubSeq(t, 1, Len(s)) = s

(* C33: save_partial_results only appends: the lines already in the file   *)
(* stay as they are and in order, a header is written when the file is     *)
(* created and at no other time; read_partial_results returns one row per  *)
(* stored result, in the order they were saved, holding the fields asked   *)
(* for, a field that was not stored being the empty text; without a file   *)
(* it returns the empty list.                                              *)
C33_AppendOnlyAndSchemaRead ==
    [][/\ (csv_file' # csv_file) =>
             /\ csv_file' # <<>>
             /\ csv_file'[1][1] = schema
             /\ \A k \in 2..Len(csv_file'[1]) : csv_file'[1][k] # schema
             /\ csv_file # <<>> => IsPrefix(csv_file[1], csv_file'[1])
             /\ Len(csv_file'[1]) = 1 + Len(stored')
       /\ (read_result' # read_result) =>
             LET fields == FieldSet(read_result'[1])
                 rows == read_result'[2]
             IN /\ csv_file = <<>> => rows = <<>>
                /\ Len(rows) = Len(stored)
                /\ \A r \in 1..Len(rows) :
                      /\ DOMAIN rows[r] = fields
                      /\ \A f \in fields :
                            rows[r][f] = IF f \in DOMAIN stored[r] THEN stored[r][f] ELSE ""]_vars

(* Rows saved by two calls were read back with a field that was never      *)
(* stored.                                                                 *)
C33_Witness ==
    /\ Len(stored) = MaxStoredRows
    /\ read_result # <<>>
    /\ read_result[1] = <<"Seasonal", "Brand">>
    /\ Len(read_result[2]) = MaxStoredRows

----------------------------------------------------------------------------
(* Properties of one decorated call (SpecRetry) *)

Done == wpc \in {"returned", "raised"}

(* Failed attempts of the current call so far. *)
FailedAttempts == attempt + (IF wpc \in {"caught", "sleep", "raised"} THEN 1 ELSE 0)

(* C1: the list a batch operation returns has exactly as many records as   *)
(* the batch has items, whatever the response text was.                    *)
C1_ResultLengthIsBatchLength ==
    (wpc = "returned" /\ func \in {"brand", "product"}) => Len(ret) = Len(batch)

(* C5: the wrapper calls the operation at most max_retries + 1 times; a    *)
(* retryable failure before the last attempt leads to another attempt, a   *)
(* success ends the call at that attempt, a retryable failure is raised    *)
(* only on attempt max_retries, and max_retries = 0 means one attempt and  *)
(* no sleep.                                                               *)
C5_AtMostMaxRetriesPlusOneCalls ==
    /\ calls <= policy.max_retries + 1
    /\ attempt <= policy.max_retries
    /\ calls = attempt + (IF wpc = "call" THEN 0 ELSE 1)
    /\ (wpc = "raised" /\ exc \in Retryable) =>
          (attempt = policy.max_retries /\ calls = policy.max_retries + 1)
    /\ wpc = "sleep" => (exc \in Retryable /\ attempt < policy.max_retries)
    /\ wpc = "returned" => (exc = "none" /\ calls = attempt + 1)
    /\ (policy.max_retries = 0 /\ Done) => (calls = 1 /\ sleeps = <<>>)

C5_Witness ==
    /\ wpc = "raised" /\ exc = NETWORK_ERROR
    /\ policy.max_retries = 2 /\ calls = 3

(* C6: the k-th delay slept (k = 0, 1, ...) is min(base_delay * 2^k,       *)
(* max_delay), never more than max_delay; there is one sleep per failed    *)
(* attempt but the last; a call failing on all 3 attempts of max_retries   *)
(* = 2 has slept min(base, max) + min(2 * base, max) in total.             *)
C6_DelayIsCappedExponential ==
    /\ \A k \in 1..Len(sleeps) :
          /\ sleeps[k] = (IF policy.base_delay * Pow2(k - 1) <= policy.max_delay
                          THEN policy.base_delay * Pow2(k - 1)
                          ELSE policy.max_delay)
          /\ sleeps[k] <= policy.max_delay
    /\ Len(sleeps) = attempt
    /\ wpc = "raised" => Len(sleeps) = calls - 1
    /\ (wpc = "raised" /\ exc \in Retryable /\ policy.max_retries = 2) =>
          SumSeq(sleeps) =
             (IF policy.base_delay <= policy.max_delay
              THEN policy.base_delay ELSE policy.max_delay)
             + (IF 2 * policy.base_delay <= policy.max_delay
                THEN 2 * policy.base_delay ELSE policy.max_delay)

C6_Witness ==
    /\ wpc = "raised" /\ exc \in Retryable
    /\ \E k \in 1..Len(sleeps) :
          /\ policy.base_delay * Pow2(k - 1) > policy.max_delay
          /\ sleeps[k] = policy.max_delay

(* C7: a failure that is none of the three retryable kinds leaves the      *)
(* wrapper on the attempt where it occurred: nothing is slept for it and   *)
(* no attempt follows it.                                                  *)
C7_OtherFailurePropagatesAtOnce ==
    /\ OtherError \in kinds => (wpc \in {"caught", "raised"} /\ exc = OtherError)
    /\ (wpc = "raised" /\ exc = OtherError) =>
          (calls = attempt + 1 /\ Len(sleeps) = attempt)

C7_Witness ==
    /\ wpc = "raised" /\ exc = OtherError
    /\ attempt = 1 /\ policy.max_retries >= 2

(* C8: every delay slept is added to total_wait_time: during and after a   *)
(* call the counter has grown by the sum of the delays slept.              *)
C8_WaitTimeAccumulatesDelays == total_wait_time = SumSeq(sleeps)

(* C9: each failed attempt of a batch operation raised as RateLimited,     *)
(* Network or Auth has added one to the counter of its own kind by the     *)
(* time the wrapper sees it; a call failing with one kind on all           *)
(* max_retries + 1 attempts has raised that counter by max_retries + 1     *)
(* and no other.                                                           *)
C9_ErrorCountPerFailedAttempt ==
    func \in {"brand", "product"} =>
       /\ error_counts["rate_limit"] + error_counts["network"] + error_counts["auth"]
             = FailedAttempts
       /\ (RATE_LIMIT_HIT \in kinds) = (error_counts["rate_limit"] > 0)
       /\ (NETWORK_ERROR \in kinds) = (error_counts["network"] > 0)
       /\ (AUTH_ERROR \in kinds) = (error_counts["auth"] > 0)
       /\ error_counts["file_system"] = 0
       /\ (wpc = "raised" /\ Cardinality(kinds) = 1) =>
             \E k \in {"rate_limit", "network", "auth"} :
                /\ error_counts[k] = policy.max_retries + 1
                /\ \A o \in ErrorKeys \ {k} : error_counts[o] = 0

C9_Witness ==
    /\ func = "product" /\ wpc = "raised" /\ kinds = {AUTH_ERROR}
    /\ policy = Deployed
    /\ error_counts["auth"] = DEPLOYED_MAX_RETRIES + 1

(* C10: an endpoint failure without rate-limit, authentication or network  *)
(* indication ends the call at once with one sentinel record per item      *)
(* (ERROR_API, or the default rating), is not raised, and adds one to the  *)
(* parsing counter.                                                        *)
C10_UnknownFailureAbsorbed ==
    (func \in {"brand", "product"} /\ lastSig = <<{}>>) =>
       /\ wpc = "returned"
       /\ exc = "none"
       /\ calls = attempt + 1
       /\ error_counts["parsing"] = 1
       /\ Len(ret) = Len(batch)
       /\ \A ix \in 1..Len(ret) :
             IF func = "brand"
             THEN ret[ix] = [term |-> batch[ix], brand |-> "ERROR_API"]
             ELSE ret[ix] = [Seasonal |-> 3, Specificity |-> 3, Commodity |-> 3,
                            SubscribeSave |-> 2, Gated |-> 0,
                            Electronics_Batteries |-> 0, Insurance_Gov |-> 0]

C10_Witness ==
    /\ func = "brand" /\ lastSig = <<{}>> /\ wpc = "returned"
    /\ attempt = 2 /\ Len(batch) = 2

(* C20: in brand-pair mode every input keyword is the search term of      *)
(* exactly one output record (as often as the batch holds it), whatever    *)
(* the response text: also when the response repeats a keyword or names    *)
(* only a later keyword.                                                   *)
C20_EachKeywordOneBrandRecord ==
    (wpc = "returned" /\ func = "brand") =>
        \A kw \in Keywords :
            Cardinality({r \in 1..Len(ret) : ret[r].term = kw}) =
                Cardinality({j \in 1..Len(batch) : batch[j] = kw})

(* A call of process_brand_batch has returned the records parsed from a    *)
(* response text.                                                          *)
BrandParsed == wpc = "returned" /\ func = "brand" /\ lastResp # <<>>

(* C21: the i-th record of the result belongs to the i-th item of the      *)
(* request: in brand-pair mode record i carries the search term            *)
(* keywords[i], whatever the order of the pairs in the response.           *)
C21_RecordAtItemPosition ==
    BrandParsed =>
        \A ix \in 1..Min(Len(ret), Len(batch)) : ret[ix].term = batch[ix]

(* C22: a pair whose keyword equals an input keyword ignoring case yields  *)
(* a record keyed by that input keyword in its original casing, with the   *)
(* text after the first colon as label; a pair matching no input keyword   *)
(* is keyed by the input keyword at the pair's own position.               *)
C22_KeywordResolution ==
    BrandParsed =>
        \A ix \in 1..Len(lastResp[1]) :
            LET pair == lastResp[1][ix]
                same == {j \in 1..Len(batch) : Lower(batch[j]) = Lower(pair.keyword)}
            IN pair.colon =>
                 /\ ret[ix].brand = pair.brand
                 /\ same # {} => \E j \in same : ret[ix].term = batch[j]
                 /\ (same = {} /\ ix <= Len(batch)) => ret[ix].term = batch[ix]

(* The response 'nike:no, hat:no' for the keywords sock, Nike: one pair    *)
(* matched ignoring case, one without a match.                             *)
C22_Witness ==
    /\ BrandParsed
    /\ batch = <<"sock", "Nike">>
    /\ lastResp[1] = <<[colon |-> TRUE, keyword |-> "nike", brand |-> "no"],
                       [colon |-> TRUE, keyword |-> "hat", brand |-> "no"]>>
    /\ ret = <<[term |-> "Nike", brand |-> "no"], [term |-> "Nike", brand |-> "no"]>>

(* C23: a response entry without a colon produces, at that entry's         *)
(* position, a record labelled ERROR_PARSING; the records of the other     *)
(* entries and the length of the result are the same as with any other     *)
(* entry in its place.                                                     *)
C23_MalformedEntryIsLocal ==
    BrandParsed =>
        \A ix \in 1..Len(lastResp[1]) :
            ~lastResp[1][ix].colon =>
                /\ Len(ret) >= ix
                /\ ret[ix].brand = "ERROR_PARSING"
                /\ \A q \in BrandPairs :
                      LET alt == ParseBrand(batch, [lastResp[1] EXCEPT ![ix] = q])
                      IN /\ Len(alt) = Len(ret)
                         /\ \A k \in 1..Len(ret) : k # ix => alt[k] = ret[k]

(* A response whose first entry has no colon and whose second has one. *)
C23_Witness ==
    /\ BrandParsed
    /\ Len(batch) = 2
    /\ Len(lastResp[1]) = 2
    /\ ~lastResp[1][1].colon
    /\ lastResp[1][2].colon
    /\ ret[1].brand = "ERROR_PARSING"

(* C24: with a response shorter than the batch, the records appended after *)
(* the pairs' records are labelled ERROR_PARSING and are exactly the input *)
(* items without a record so far; no item that has one is appended again.  *)
C24_PaddingCoversMissingItems ==
    (BrandParsed /\ Len(lastResp[1]) < Len(batch)
        /\ \A j, k \in 1..Len(batch) : batch[j] = batch[k] => j = k) =>
        LET n == Len(lastResp[1])
            covered == {ret[r].term : r \in 1..n}
            appended == (n + 1)..Len(ret)
        IN /\ \A r \in appended :
                 /\ ret[r].brand = "ERROR_PARSING"
                 /\ ret[r].term \notin covered
           /\ \A j \in 1..Len(batch) :
                 batch[j] \notin covered =>
                     Cardinality({r \in appended : ret[r].term = batch[j]}) = 1

(* A call of process_product_batch has returned the records parsed from a  *)
(* response text.                                                          *)
ProductParsed == wpc = "returned" /\ func = "product" /\ lastResp # <<>>

(* C25: in rating-tuple mode the record at a segment's position holds the  *)
(* seven parsed integers, in the order Seasonal, Specificity, Commodity,   *)
(* Subscribe&Save, Gated, Electronics_Batteries, Insurance_Gov, exactly    *)
(* when the segment has a colon and exactly 7 integer tokens, the first    *)
(* four in 0..5 and the last three in 0..1; for any other segment, and for *)
(* the positions past the last segment, it is the default {3,3,3,2,0,0,0}. *)
C25_RatingTupleOrDefault ==
    ProductParsed =>
        LET segs == lastResp[1]
            default == [Seasonal |-> 3, Specificity |-> 3, Commodity |-> 3,
                        SubscribeSave |-> 2, Gated |-> 0,
                        Electronics_Batteries |-> 0, Insurance_Gov |-> 0]
            WellFormed(seg) ==
                /\ seg.colon
                /\ Len(seg.ratings) = 7
                /\ \A k \in 1..7 : seg.ratings[k].num
                /\ \A k \in 1..4 : seg.ratings[k].val \in 0..5
                /\ \A k \in 5..7 : seg.ratings[k].val \in 0..1
        IN /\ Len(ret) >= Len(segs) /\ Len(ret) >= Len(batch)
           /\ \A ix \in 1..Len(segs) :
                 IF WellFormed(segs[ix])
                 THEN ret[ix] =
                        [Seasonal |-> segs[ix].ratings[1].val,
                         Specificity |-> segs[ix].ratings[2].val,
                         Commodity |-> segs[ix].ratings[3].val,
                         SubscribeSave |-> segs[ix].ratings[4].val,
                         Gated |-> segs[ix].ratings[5].val,
                         Electronics_Batteries |-> segs[ix].ratings[6].val,
                         Insurance_Gov |-> segs[ix].ratings[7].val]
                 ELSE ret[ix] = default
           /\ \A ix \in (Len(segs) + 1)..Len(ret) : ret[ix] = default

(* One well-formed segment, and one whose Gated flag is 2, for a batch of  *)
(* two items.                                                              *)
C25_Witness ==
    /\ ProductParsed
    /\ Len(batch) = 2
    /\ Len(lastResp[1]) = 2
    /\ lastResp[1][1] = ValidSegment
    /\ lastResp[1][2].colon
    /\ Len(lastResp[1][2].ratings) = 7
    /\ lastResp[1][2].ratings[5] = Tok(2)
    /\ ret[1].SubscribeSave = 4
    /\ ret[2].SubscribeSave = 2

(* C26: whatever text the endpoint returns, process_brand_batch and        *)
(* process_product_batch return a list of records and raise nothing: the   *)
(* attempt that got the text ends the call, no failure is counted and no   *)
(* retry follows.                                                          *)
C26_MalformedTextNeverRaises ==
    [][/\ (lastResp' # <<>> /\ lastResp' # lastResp) =>
              /\ wpc' = "returned"
              /\ exc' = "none"
              /\ Len(ret') >= Len(batch)
              /\ kinds' = kinds
              /\ calls' = calls + 1
              /\ UNCHANGED <<attempt, sleeps, error_counts,
                             rate_limit_occurrences, total_wait_time>>
       /\ (lastResp # <<>> /\ pc = "off") => calls' = calls]_vars

(* After one retried failure the endpoint answered a text without a single *)
(* colon, and the call returned.                                           *)
C26_Witness ==
    /\ BrandParsed
    /\ attempt = 1
    /\ Len(batch) = 2
    /\ Len(lastResp[1]) = 2
    /\ \A ix \in 1..2 : ~lastResp[1][ix].colon
    /\ \A ix \in 1..2 : ret[ix].brand = "ERROR_PARSING"

(* C11: a failure whose message has a rate-limit indication ('429',        *)
(* 'rate limit' in any case) is raised as RATE_LIMIT_HIT; otherwise one    *)
(* with an authentication indication ('401', 'authentication') as          *)
(* AUTH_ERROR; otherwise one with a timeout or network/connectivity        *)
(* indication as NETWORK_ERROR; every other failure is absorbed as         *)
(* parsing/unknown.                                                        *)
C11_FailureClassification ==
    (func \in {"brand", "product"} /\ lastSig # <<>>) =>
        LET sig == lastSig[1]
            expected ==
                IF "429" \in sig \/ "Rate limit" \in sig THEN RATE_LIMIT_HIT
                ELSE IF "401" \in sig \/ "authentication" \in sig THEN AUTH_ERROR
                ELSE IF \/ "timeout" \in sig
                        \/ "network" \in sig
                        \/ "Connection error" \in sig
                THEN NETWORK_ERROR
                ELSE "parsing"
        IN IF expected = "parsing"
           THEN wpc = "returned" /\ exc = "none"
           ELSE wpc \in {"caught", "sleep", "raised"} /\ exc = expected

----------------------------------------------------------------------------
(* Progress Store and Partial Result Store (AIProcessor) *)

(* save_progress: the record written over the progress file. *)
ProgressRecord(current_batch, count, total_items) ==
    [script_type |-> "product_validator",
     current_batch |-> current_batch,
     processed_count |-> count,
     total_items |-> total_items,
     rate_limit_occurrences |-> rate_limit_occurrences,
     total_wait_time |-> total_wait_time,
     error_counts |-> error_counts]

(* csv.DictWriter writes every value as text. *)
CsvRow(row) ==
    [item |-> row.item, term |-> row.term,
     rating |-> [f \in DOMAIN row.rating |-> ToString(row.rating[f])]]

(* save_partial_results: create the file, or append to the one there. *)
SavePartial(file, rows) ==
    LET written == [r \in 1..Len(rows) |-> CsvRow(rows[r])]
    IN IF file = <<>> THEN <<written>> ELSE <<file[1] \o written>>

(* read_partial_results: the stored rows, [] without a file. *)
ReadPartial(file) == IF file = <<>> THEN <<>> ELSE file[1]

----------------------------------------------------------------------------
(* Product-validation stage driver (product_validator.py main) *)

(* Mutant: the number of full batches, a smaller final batch left out. *)
TotalBatchesFloor(n) == n \div BATCH_SIZE

(* total_batches = (len(products) + BATCH_SIZE - 1) // BATCH_SIZE *)
TotalBatches(n) == (n + BATCH_SIZE - 1) \div BATCH_SIZE

BatchStart(b) == b * BATCH_SIZE
BatchEnd(b, n) == Min(BatchStart(b) + BATCH_SIZE, n)

(* search_terms of products[batch_start:batch_end] *)
SearchTerms(b) == SubSeq(products, BatchStart(b) + 1, BatchEnd(b, Len(products)))

(* zip(batch_products, batch_assessments): each record with its row's      *)
(* search term and pass-through columns (item stands for that row).        *)
Enrich(b, assessments) ==
    [j \in 1..Min(BatchEnd(b, Len(products)) - BatchStart(b), Len(assessments)) |->
        [item |-> BatchStart(b) + j, term |-> products[BatchStart(b) + j],
         rating |-> assessments[j]]]

(* Mutant: the handler leaves out the last row of the batch. *)
ErrorRowsButLast(b) ==
    [j \in 1..(BatchEnd(b, Len(products)) - BatchStart(b) - 1) |->
        [item |-> BatchStart(b) + j, term |-> products[BatchStart(b) + j],
         rating |-> DefaultRating]]

(* The handler's rows: the default record for every row of the batch. *)
ErrorRows(b) ==
    [j \in 1..(BatchEnd(b, Len(products)) - BatchStart(b)) |->
        [item |-> BatchStart(b) + j, term |-> products[BatchStart(b) + j],
         rating |-> DefaultRating]]

(* Mutant: the resumed loop starts one batch too early. *)
ResumeStartOneEarly(progress) == progress.current_batch - 1

(* start_batch = existing_progress['current_batch'] *)
ResumeStart(progress) == progress.current_batch

(* The state of a process that has not started a stage yet. *)
Volatile ==
    /\ func' = "product"
    /\ policy' = Deployed
    /\ batch' = <<>>
    /\ attempt' = 0
    /\ wpc' = "idle"
    /\ exc' = "none"
    /\ delay' = 0
    /\ ret' = <<>>
    /\ error_counts' = ZeroCounts
    /\ rate_limit_occurrences' = 0
    /\ total_wait_time' = 0
    /\ memory_usage' = <<>>
    /\ processing_speeds' = <<>>
    /\ batch_times' = <<>>
    /\ logged' = [memory |-> 0, batch |-> 0]
    /\ calls' = 0
    /\ sleeps' = <<>>
    /\ kinds' = {}
    /\ lastSig' = <<>>
    /\ lastResp' = <<>>
    /\ ec0' = ZeroCounts
    /\ existing_progress' = <<>>
    /\ start_batch' = 0
    /\ i' = 0
    /\ processed_count' = 0
    /\ all_brands' = <<>>
    /\ matched' = FALSE
    /\ visited' = <<>>
    /\ requests' = 0
    /\ pauses' = {}

(* What a write that failed after open(progress_file, 'w') leaves behind:  *)
(* a file json.load cannot decode.                                         *)
Undecodable == [corrupt |-> TRUE]

(* The file exists and json.load returns its record. *)
Readable(file) == file # <<>> /\ file[1] # Undecodable

(* load_progress on the counters: a stored record replaces them, a file    *)
(* that cannot be decoded adds one to file_system, no file changes nothing *)
LoadedCounts(ec) ==
    IF progress_file = <<>> THEN ec
    ELSE IF Readable(progress_file) THEN progress_file[1].error_counts
    ELSE Bump(ec, "file_system")

(* processor = AIProcessor(...); existing_progress = load_progress():      *)
(* a stored record restores the counters and is returned, None otherwise.  *)
Start ==
    /\ pc = "start"
    /\ existing_progress' = IF Readable(progress_file) THEN progress_file ELSE <<>>
    /\ error_counts' = LoadedCounts(error_counts)
    /\ rate_limit_occurrences' =
          IF Readable(progress_file) THEN progress_file[1].rate_limit_occurrences
          ELSE rate_limit_occurrences
    /\ total_wait_time' =
          IF Readable(progress_file) THEN progress_file[1].total_wait_time
          ELSE total_wait_time
    /\ pc' = IF Readable(progress_file) THEN "choose" ELSE "init"
    /\ UNCHANGED <<pipeVars, csvVars, perfVars, wrapVars, histVars, products, all_brands, start_batch, i, processed_count,
                   fileVars, scenVars>>

(* Mutant: the resume choice removes both files as well. *)
ChooseResumeCleans ==
    /\ pc = "choose"
    /\ progress_file' = <<>>
    /\ partial_file' = <<>>
    /\ pc' = "init"
    /\ UNCHANGED <<pipeVars, csvVars, perfVars, wrapVars, procVars, histVars, products, all_brands, existing_progress,
                   start_batch, i, processed_count, final_file, scenVars>>

(* choice 1: resume from where you left off *)
ChooseResume ==
    /\ pc = "choose"
    /\ pc' = "init"
    /\ UNCHANGED <<pipeVars, csvVars, perfVars, wrapVars, procVars, histVars, products, all_brands, existing_progress,
                   start_batch, i, processed_count, fileVars, scenVars>>

(* choice 2: start fresh; cleanup_progress_files removes both files *)
ChooseFresh ==
    /\ pc = "choose"
    /\ existing_progress' = <<>>
    /\ progress_file' = <<>>
    /\ partial_file' = <<>>
    /\ pc' = "init"
    /\ UNCHANGED <<pipeVars, csvVars, perfVars, wrapVars, procVars, histVars, products, all_brands, start_batch, i,
                   processed_count, final_file, scenVars>>

(* Initialize or resume progress, then enter the batch loop. *)
InitLoop ==
    /\ pc = "init"
    /\ IF existing_progress # <<>>
       THEN /\ start_batch' = ResumeStart(existing_progress[1])
            /\ processed_count' = existing_progress[1].processed_count
            /\ matched' =
                  LET k == existing_progress[1].current_batch
                      rows == ReadPartial(partial_file)
                  IN /\ Len(rows) = Min(k * BATCH_SIZE, Len(products))
                     /\ \A r \in 1..Len(rows) : rows[r].item = r
       ELSE /\ start_batch' = 0
            /\ processed_count' = 0
            /\ matched' = FALSE
    /\ i' = start_batch'
    /\ pc' = "loop"
    /\ UNCHANGED <<pipeVars, csvVars, perfVars, wrapVars, procVars, histVars, products, all_brands, existing_progress,
                   fileVars, crashes, faults, requests, pauses, failures, window, visited>>

(* The frame of the decorated call is gone once the driver has its result. *)
CallOver ==
    /\ wpc' = "idle"
    /\ attempt' = 0
    /\ exc' = "none"
    /\ delay' = 0
    /\ ret' = <<>>
    /\ calls' = 0
    /\ sleeps' = <<>>
    /\ kinds' = {}
    /\ lastSig' = <<>>
    /\ lastResp' = <<>>
    /\ ec0' = ZeroCounts
    /\ requests' = 0

(* for i in range(start_batch, total_batches): slice the batch and call    *)
(* processor.process_batch(search_terms, "product").                       *)
CallBatch ==
    /\ pc = "loop"
    /\ i >= 0 /\ i < TotalBatches(Len(products))
    /\ batch' = SearchTerms(i)
    /\ wpc' = "call"
    /\ attempt' = 0
    /\ exc' = "none"
    /\ ret' = <<>>
    /\ calls' = 0
    /\ sleeps' = <<>>
    /\ kinds' = {}
    /\ lastSig' = <<>>
    /\ lastResp' = <<>>
    /\ ec0' = error_counts
    /\ requests' = 0
    /\ visited' = Append(visited, i)
    /\ pc' = "await"
    /\ UNCHANGED <<pipeVars, csvVars, perfVars, func, policy, delay, procVars, products, all_brands, existing_progress,
                   start_batch, i, processed_count, fileVars, crashes, faults, pauses, failures,
                   window, matched>>

(* The call returned: enrich the records and append them to the partial    *)
(* file.                                                                   *)
AppendResults ==
    /\ pc = "await" /\ wpc = "returned"
    /\ partial_file' = SavePartial(partial_file, Enrich(i, ret))
    /\ CallOver
    /\ LogMemory
    /\ pc' = "appended"
    /\ UNCHANGED <<pipeVars, csvVars, func, policy, batch, procVars, products, all_brands, existing_progress,
                   start_batch, i, processed_count, progress_file, final_file,
                   crashes, failures, faults, window, matched, visited, pauses>>

(* Mutant: the index of the batch just processed is saved. *)
NextIndexSame(b) == b

(* save_progress(i + 1, ...): the index of the next batch to process *)
NextIndex(b) == b + 1

(* processed_count += len(search_terms); save_progress(i + 1, ...) *)
(* Mutant: save_progress appends the record to the records already there. *)
SaveProgressAppends ==
    /\ pc = "appended"
    /\ processed_count' = processed_count + Len(batch)
    /\ progress_file' =
          progress_file \o
          <<ProgressRecord(NextIndex(i), processed_count + Len(batch), Len(products))>>
    /\ pc' = "saved"
    /\ UNCHANGED <<pipeVars, csvVars, perfVars, wrapVars, procVars, histVars, products, all_brands, existing_progress,
                   start_batch, i, partial_file, final_file, scenVars>>

SaveProgress ==
    /\ pc = "appended"
    /\ processed_count' = processed_count + Len(batch)
    /\ progress_file' =
          <<ProgressRecord(NextIndex(i), processed_count + Len(batch), Len(products))>>
    /\ pc' = "saved"
    /\ UNCHANGED <<pipeVars, csvVars, perfVars, wrapVars, procVars, histVars, products, all_brands, existing_progress,
                   start_batch, i, partial_file, final_file, scenVars>>

(* The inter-batch sleep (skipped after the final batch), then the next    *)
(* iteration.                                                              *)
NextBatch ==
    /\ pc = "saved"
    /\ pauses' = IF i + 1 < TotalBatches(Len(products)) THEN pauses \cup {i} ELSE pauses
    /\ i' = i + 1
    /\ pc' = "loop"
    /\ UNCHANGED <<pipeVars, csvVars, perfVars, wrapVars, procVars, histVars, products, all_brands, existing_progress,
                   start_batch, processed_count, fileVars, crashes, failures, faults, window, matched, visited, requests>>

(* except Exception: the call raised; default rows for the whole batch are *)
(* appended to the partial file.                                           *)
ContainFailure ==
    /\ pc = "await" /\ wpc = "raised"
    /\ partial_file' = SavePartial(partial_file, ErrorRows(i))
    /\ CallOver
    /\ LogMemory
    /\ pc' = "contained"
    /\ UNCHANGED <<pipeVars, csvVars, func, policy, batch, procVars, products, all_brands, existing_progress,
                   start_batch, i, processed_count, progress_file, final_file,
                   crashes, failures, faults, window, matched, visited, pauses>>

(* ... processed_count += len(search_terms); save_progress(i + 1, ...);    *)
(* continue                                                                *)
SaveProgressContained ==
    /\ pc = "contained"
    /\ processed_count' = processed_count + Len(batch)
    /\ progress_file' =
          <<ProgressRecord(NextIndex(i), processed_count + Len(batch), Len(products))>>
    /\ i' = i + 1
    /\ pc' = "loop"
    /\ UNCHANGED <<pipeVars, csvVars, perfVars, wrapVars, procVars, histVars, products, all_brands, existing_progress,
                   start_batch, partial_file, final_file, scenVars>>

(* The loop is over: read all rows back from the partial file and write    *)
(* the final file.                                                         *)
Assemble ==
    /\ pc = "loop"
    /\ ~(i < TotalBatches(Len(products)))
    /\ Len(products) > 0
    /\ final_file' = <<ReadPartial(partial_file)>>
    /\ pc' = "written"
    /\ UNCHANGED <<pipeVars, csvVars, perfVars, wrapVars, procVars, histVars, products, all_brands, existing_progress,
                   start_batch, i, processed_count, progress_file, partial_file,
                   scenVars>>

(* With an empty input products[0] raises in the assembly: the outer       *)
(* handler reports the critical error and main returns False.              *)
AssembleFails ==
    /\ pc = "loop"
    /\ ~(i < TotalBatches(Len(products)))
    /\ Len(products) = 0
    /\ pc' = "failed"
    /\ UNCHANGED <<pipeVars, csvVars, perfVars, wrapVars, procVars, histVars, products, all_brands, existing_progress,
                   start_batch, i, processed_count, fileVars, scenVars>>

(* processor.cleanup_progress_files(); return True *)
Cleanup ==
    /\ pc = "written"
    /\ progress_file' = <<>>
    /\ partial_file' = <<>>
    /\ pc' = "completed"
    /\ UNCHANGED <<pipeVars, csvVars, perfVars, wrapVars, procVars, histVars, products, all_brands, existing_progress,
                   start_batch, i, processed_count, final_file, scenVars>>

Running ==
    {"start", "choose", "init", "loop", "await", "appended", "saved", "contained",
     "written"}

(* The process is terminated (killed, power loss, Ctrl-C) and the stage is *)
(* run again: nothing but the files survives.                              *)
Crash ==
    /\ pc \in Running
    /\ crashes < MaxCrashes
    /\ crashes' = crashes + 1
    /\ window' = IF pc \in {"appended", "contained"} THEN window \cup {i} ELSE window
    /\ Volatile
    /\ pc' = "start"
    /\ UNCHANGED <<pipeVars, csvVars, products, fileVars, failures, faults>>

Init ==
    /\ func = "product"
    /\ policy = Deployed
    /\ batch = <<>>
    /\ attempt = 0
    /\ wpc = "idle"
    /\ exc = "none"
    /\ delay = 0
    /\ ret = <<>>
    /\ error_counts = ZeroCounts
    /\ rate_limit_occurrences = 0
    /\ total_wait_time = 0
    /\ NoLogs
    /\ NoCsv
    /\ NoPipeline
    /\ calls = 0
    /\ sleeps = <<>>
    /\ kinds = {}
    /\ lastSig = <<>>
    /\ lastResp = <<>>
    /\ ec0 = ZeroCounts
    /\ pc = "start"
    /\ products \in {[j \in 1..n |-> IF j % 2 = 1 THEN "sock" ELSE "Nike"] : n \in 0..MaxItems}
    /\ existing_progress = <<>>
    /\ start_batch = 0
    /\ i = 0
    /\ processed_count = 0
    /\ all_brands = <<>>
    /\ progress_file = <<>>
    /\ partial_file = <<>>
    /\ final_file = <<>>
    /\ crashes = 0
    /\ failures = 0
    /\ faults = 0
    /\ window = {}
    /\ matched = FALSE
    /\ visited = <<>>
    /\ requests = 0
    /\ pauses = {}

Next ==
    \/ Start
    \/ ChooseResume
    \/ ChooseFresh
    \/ InitLoop
    \/ CallBatch
    \/ ProductReply
    \/ ProductFailure
    \/ CatchRetryable
    \/ SleepDone
    \/ AppendResults
    \/ SaveProgress
    \/ NextBatch
    \/ ContainFailure
    \/ SaveProgressContained
    \/ Assemble
    \/ AssembleFails
    \/ Cleanup
    \/ Crash

Spec == Init /\ [][Next]_vars

----------------------------------------------------------------------------
(* SpecFault: the product-validation stage when writes to its files fail   *)
(* (disk full, permissions).  A failed append leaves the partial file as   *)
(* it was; a failed progress write leaves the progress file as it was or   *)
(* undecodable.                                                            *)

(* Mutant: a failed append is counted and swallowed like a failed progress *)
(* write.                                                                  *)
AppendFailsSwallowed ==
    /\ pc = "await" /\ wpc = "returned"
    /\ faults < MaxFaults
    /\ faults' = faults + 1
    /\ error_counts' = Bump(error_counts, "file_system")
    /\ CallOver
    /\ pc' = "appended"
    /\ UNCHANGED <<pipeVars, csvVars, perfVars, func, policy, batch, rate_limit_occurrences, total_wait_time,
                   products, all_brands, existing_progress, start_batch, i,
                   processed_count, fileVars, crashes, pauses, failures, window, matched,
                   visited>>

(* save_partial_results raises in the success path: file_system += 1 and   *)
(* FILE_SYSTEM_ERROR reaches the except clause of the batch.               *)
AppendFails ==
    /\ pc = "await" /\ wpc = "returned"
    /\ faults < MaxFaults
    /\ faults' = faults + 1
    /\ error_counts' = Bump(error_counts, "file_system")
    /\ exc' = FILE_SYSTEM_ERROR
    /\ wpc' = "raised"
    /\ UNCHANGED <<pipeVars, csvVars, perfVars, func, policy, batch, attempt, delay, ret, rate_limit_occurrences,
                   total_wait_time, histVars, stageVars, fileVars, crashes, requests, pauses,
                   failures, window, matched, visited>>

(* save_partial_results raises inside the except clause of the batch: the  *)
(* exception escapes to the outer handler, which prints                    *)
(* get_progress_summary() (load_progress) and returns False.               *)
ContainFails ==
    /\ pc = "await" /\ wpc = "raised"
    /\ faults < MaxFaults
    /\ faults' = faults + 1
    /\ error_counts' = LoadedCounts(Bump(error_counts, "file_system"))
    /\ rate_limit_occurrences' =
          IF Readable(progress_file) THEN progress_file[1].rate_limit_occurrences
          ELSE rate_limit_occurrences
    /\ total_wait_time' =
          IF Readable(progress_file) THEN progress_file[1].total_wait_time
          ELSE total_wait_time
    /\ exc' = FILE_SYSTEM_ERROR
    /\ pc' = "failed"
    /\ UNCHANGED <<pipeVars, csvVars, perfVars, func, policy, batch, attempt, wpc, delay, ret, histVars,
                   products, all_brands, existing_progress, start_batch, i,
                   processed_count, fileVars, crashes, requests, pauses, failures, window, matched,
                   visited>>

(* What a failed save_progress leaves of the progress file. *)
AfterFailedSave(file) == {file, <<Undecodable>>}

(* save_progress fails in the success path: file_system += 1, nothing is   *)
(* raised, the loop goes on.                                               *)
SaveProgressFails ==
    /\ pc = "appended"
    /\ faults < MaxFaults
    /\ faults' = faults + 1
    /\ processed_count' = processed_count + Len(batch)
    /\ error_counts' = Bump(error_counts, "file_system")
    /\ progress_file' \in AfterFailedSave(progress_file)
    /\ pc' = "saved"
    /\ UNCHANGED <<pipeVars, csvVars, perfVars, wrapVars, rate_limit_occurrences, total_wait_time, histVars,
                   products, all_brands, existing_progress, start_batch, i,
                   partial_file, final_file, crashes, requests, pauses, failures, window, matched,
                   visited>>

(* save_progress fails in the except clause of the batch; continue *)
SaveProgressContainedFails ==
    /\ pc = "contained"
    /\ faults < MaxFaults
    /\ faults' = faults + 1
    /\ processed_count' = processed_count + Len(batch)
    /\ error_counts' = Bump(error_counts, "file_system")
    /\ progress_file' \in AfterFailedSave(progress_file)
    /\ i' = i + 1
    /\ pc' = "loop"
    /\ UNCHANGED <<pipeVars, csvVars, perfVars, wrapVars, rate_limit_occurrences, total_wait_time, histVars,
                   products, all_brands, existing_progress, start_batch,
                   partial_file, final_file, crashes, requests, pauses, failures, window, matched,
                   visited>>

(* Mutant: the failure path removes the progress and the partial file. *)
FinalWriteFailsCleansUp ==
    /\ pc = "loop"
    /\ ~(i < TotalBatches(Len(products)))
    /\ Len(products) > 0
    /\ faults < MaxFaults
    /\ faults' = faults + 1
    /\ progress_file' = <<>>
    /\ partial_file' = <<>>
    /\ pc' = "failed"
    /\ UNCHANGED <<pipeVars, csvVars, perfVars, wrapVars, procVars, histVars, products, all_brands,
                   existing_progress, start_batch, i, processed_count, final_file,
                   crashes, requests, pauses, failures, window, matched, visited>>

(* Writing the final file raises: the outer handler prints                 *)
(* get_progress_summary() (load_progress) and returns False.               *)
FinalWriteFails ==
    /\ pc = "loop"
    /\ ~(i < TotalBatches(Len(products)))
    /\ Len(products) > 0
    /\ faults < MaxFaults
    /\ faults' = faults + 1
    /\ error_counts' = LoadedCounts(error_counts)
    /\ rate_limit_occurrences' =
          IF Readable(progress_file) THEN progress_file[1].rate_limit_occurrences
          ELSE rate_limit_occurrences
    /\ total_wait_time' =
          IF Readable(progress_file) THEN progress_file[1].total_wait_time
          ELSE total_wait_time
    /\ pc' = "failed"
    /\ UNCHANGED <<pipeVars, csvVars, perfVars, wrapVars, histVars, products, all_brands, existing_progress,
                   start_batch, i, processed_count, fileVars, crashes, requests, pauses, failures,
                   window, matched, visited>>

(* save_partial_results raises after writer.writerows: the rows are in the *)
(* file, log_memory_usage (get_memory_usage) raises inside the try, the     *)
(* handler counts a file_system error and raises FILE_SYSTEM_ERROR.        *)
AppendWrittenThenFails ==
    /\ pc = "await" /\ wpc = "returned"
    /\ faults < MaxFaults
    /\ faults' = faults + 1
    /\ partial_file' = SavePartial(partial_file, Enrich(i, ret))
    /\ error_counts' = Bump(error_counts, "file_system")
    /\ exc' = FILE_SYSTEM_ERROR
    /\ wpc' = "raised"
    /\ UNCHANGED <<pipeVars, csvVars, perfVars, func, policy, batch, attempt, delay, ret, rate_limit_occurrences,
                   total_wait_time, histVars, stageVars, progress_file, final_file, crashes,
                   requests, pauses, failures, window, matched, visited>>

(* Reading the partial file back raises inside read_partial_results: it   *)
(* counts a file_system error and returns []; the final file is written    *)
(* from that empty list and the run goes on to the cleanup.                *)
AssembleReadFails ==
    /\ pc = "loop"
    /\ ~(i < TotalBatches(Len(products)))
    /\ Len(products) > 0
    /\ faults < MaxFaults
    /\ faults' = faults + 1
    /\ error_counts' = Bump(error_counts, "file_system")
    /\ final_file' = <<<<>>>>
    /\ pc' = "written"
    /\ UNCHANGED <<pipeVars, csvVars, perfVars, wrapVars, rate_limit_occurrences, total_wait_time, histVars,
                   products, all_brands, existing_progress, start_batch, i, processed_count,
                   progress_file, partial_file, crashes, requests, pauses, failures,
                   window, matched, visited>>

(* main returned False; the stage is run again. *)
RunAgain ==
    /\ pc = "failed"
    /\ crashes < MaxCrashes
    /\ crashes' = crashes + 1
    /\ Volatile
    /\ pc' = "start"
    /\ UNCHANGED <<pipeVars, csvVars, products, fileVars, failures, faults, window>>

NextFault ==
    \/ Start
    \/ ChooseResume
    \/ ChooseFresh
    \/ InitLoop
    \/ CallBatch
    \/ ProductReply
    \/ ProductFailure
    \/ CatchRetryable
    \/ SleepDone
    \/ AppendResults
    \/ AppendFails
    \/ SaveProgress
    \/ SaveProgressFails
    \/ NextBatch
    \/ ContainFailure
    \/ ContainFails
    \/ SaveProgressContained
    \/ SaveProgressContainedFails
    \/ Assemble
    \/ AssembleFails
    \/ FinalWriteFails
    \/ AssembleReadFails
    \/ AppendWrittenThenFails
    \/ Cleanup
    \/ RunAgain

SpecFault == Init /\ [][NextFault]_vars

----------------------------------------------------------------------------
(* Properties of the product-validation stage *)

(* The rows of the final dataset written for input row j. *)
FinalRowsOf(j) == {r \in 1..Len(final_file[1]) : final_file[1][r].item = j}

(* The final dataset has one row per input row, in input order. *)
OneRowPerItemInOrder ==
    /\ Len(final_file[1]) = Len(products)
    /\ \A r \in 1..Len(final_file[1]) : final_file[1][r].item = r

(* The batches from k to the last one, in order. *)
BatchesFrom(k) == [ix \in 1..(TotalBatches(Len(products)) - k) |-> k + ix - 1]

(* C2: when a run was terminated right after a batch's rows were appended  *)
(* to the partial-result file and before the progress record was updated   *)
(* for that batch, the dataset of the completed re-run holds each item of  *)
(* that batch exactly once.                                                *)
C2_AppendedBatchExactlyOnce ==
    (pc = "completed" /\ window # {}) =>
        \A b \in window :
            \A j \in (BatchStart(b) + 1)..BatchEnd(b, Len(products)) :
                Cardinality(FinalRowsOf(j)) = 1

(* C3: a run resumed from a progress record saying k batches are done,     *)
(* with a partial-result file holding exactly the rows of those k batches, *)
(* processes batches k..last only, and its final dataset has exactly one   *)
(* row per input row, in input order.                                      *)
C3_ResumeIdempotent ==
    (pc = "completed" /\ existing_progress # <<>> /\ matched) =>
        /\ start_batch = existing_progress[1].current_batch
        /\ visited = BatchesFrom(existing_progress[1].current_batch)
        /\ OneRowPerItemInOrder

(* A resumed run that had a batch left to process has completed. *)
C3_Witness ==
    /\ pc = "completed"
    /\ existing_progress # <<>>
    /\ matched
    /\ existing_progress[1].current_batch = 1
    /\ Len(visited) = 1
    /\ Len(products) = MaxItems

(* C12: when the failure of a batch escapes the decorated call, the driver *)
(* appends one default record {3,3,3,2,0,0,0} per item of that batch, with *)
(* the item's search term, to the partial file, then saves a progress      *)
(* record advanced past that batch and goes on to the next batch.          *)
C12_EscapedFailureContained ==
    [][/\ (pc = "await" /\ wpc = "raised" /\ pc' # "start") =>
            /\ pc' = "contained"
            /\ ReadPartial(partial_file') =
                  ReadPartial(partial_file) \o
                    [j \in 1..Len(batch) |->
                        [item |-> i * BATCH_SIZE + j,
                         term |-> products[i * BATCH_SIZE + j],
                         rating |-> [Seasonal |-> "3", Specificity |-> "3",
                                     Commodity |-> "3", SubscribeSave |-> "2",
                                     Gated |-> "0", Electronics_Batteries |-> "0",
                                     Insurance_Gov |-> "0"]]]
            /\ UNCHANGED progress_file
       /\ (pc = "contained" /\ pc' # "start") =>
            /\ progress_file' # <<>>
            /\ progress_file'[1].current_batch = i + 1
            /\ progress_file'[1].processed_count = processed_count + Len(batch)
            /\ i' = i + 1
            /\ pc' = "loop"
            /\ UNCHANGED partial_file]_vars

(* A first batch whose six attempts were all rate limited has been         *)
(* contained and the loop is at the second batch.                          *)
C12_Witness ==
    /\ crashes = 0
    /\ pc = "loop" /\ i = 1
    /\ Len(products) = MaxItems
    /\ error_counts["rate_limit"] = DEPLOYED_MAX_RETRIES + 1
    /\ progress_file # <<>> /\ progress_file[1].current_batch = 1
    /\ Len(ReadPartial(partial_file)) = BATCH_SIZE

(* C17: on completion the final dataset is written from the rows read back *)
(* from the partial file and holds one row per input item; cleanup runs    *)
(* only after that write, and after a completed run neither the progress   *)
(* nor the partial file exists.                                            *)
C17_FinalDatasetFromPartialRows ==
    /\ (pc = "written") =>
            /\ partial_file # <<>>
            /\ final_file = <<ReadPartial(partial_file)>>
    /\ (pc \in {"written", "completed"}) =>
            /\ Len(final_file[1]) = Len(products)
            /\ \A j \in 1..Len(products) : Cardinality(FinalRowsOf(j)) = 1
    /\ (pc = "completed") => (progress_file = <<>> /\ partial_file = <<>>)

(* A step that removes the progress file or the partial file. *)
RemovesArtifact ==
    \/ progress_file # <<>> /\ progress_file' = <<>>
    \/ partial_file # <<>> /\ partial_file' = <<>>

(* C18 as stated: the progress and partial files are removed only by the   *)
(* cleanup after the stage has completed every batch, and at no other      *)
(* point of a run, the resume/restart decision at start included.          *)
C18_CleanupOnlyAfterAllBatches ==
    [][RemovesArtifact =>
            /\ pc = "written"
            /\ ~(i < TotalBatches(Len(products)))]_vars

(* C18 amended: the files are removed by the cleanup after the last batch  *)
(* and the final write, and by the restart decision when "start fresh" is  *)
(* chosen over an existing progress record; nowhere else.                  *)
C18_CleanupAfterAllBatchesOrFreshStart ==
    [][RemovesArtifact =>
            \/ /\ pc = "written"
               /\ ~(i < TotalBatches(Len(products)))
               /\ pc' = "completed"
            \/ /\ pc = "choose"
               /\ existing_progress # <<>>
               /\ existing_progress' = <<>>
               /\ pc' = "init"]_vars

(* A re-run that loaded a progress record holding a contained failure and  *)
(* then started fresh: the record's counters are in memory, the files are  *)
(* gone.                                                                   *)
C18_Witness ==
    /\ crashes = 1
    /\ pc = "init"
    /\ existing_progress = <<>>
    /\ progress_file = <<>> /\ partial_file = <<>>
    /\ error_counts["rate_limit"] > 0

C30_BatchesInOrderAndCovering ==
    LET N == Len(products)
        B == BATCH_SIZE
        lo == i * B
        hi == Min((i + 1) * B, N)
    IN /\ (pc \in {"loop", "await", "appended", "saved", "contained",
                   "written", "completed"}) =>
              /\ \A k \in 1..Len(visited) : visited[k] = start_batch + k - 1
              /\ i = start_batch + Len(visited) - (IF pc \in {"loop", "written", "completed"} THEN 0 ELSE 1)
       /\ (pc = "await") =>
              /\ batch = [k \in 1..(hi - lo) |-> products[lo + k]]
              /\ 1 <= Len(batch) /\ Len(batch) <= B
              /\ Len(batch) < B => (i + 1) * B >= N
       /\ (pc \in {"written", "completed"} /\ start_batch = 0) =>
              \A j \in 1..N :
                  Cardinality({k \in 1..Len(visited) :
                                 visited[k] * B < j /\ j <= (visited[k] + 1) * B}) = 1

(* A fresh run over MaxItems rows has completed: a full batch and a        *)
(* smaller final one.                                                      *)
C30_Witness ==
    /\ pc = "completed"
    /\ crashes = 0
    /\ Len(products) = MaxItems
    /\ Len(products) % BATCH_SIZE # 0
    /\ visited = <<0, 1>>

(* if __name__ == "__main__": asyncio.run(main()): the value main returns  *)
(* is dropped and the interpreter ends normally, whatever main reported.   *)
StageExitCode(success) == 0

(* C29: the stage script exits with code 0 when the stage fully succeeded  *)
(* (main returned True) and with code 1 when it failed unrecoverably (main *)
(* returned False).                                                        *)
C29_ExitCodeReportsOutcome ==
    /\ (pc = "completed") => StageExitCode(TRUE) = 0
    /\ (pc = "failed") => StageExitCode(FALSE) = 1

(* C28: at the top of the batch loop the driver has slept the inter-batch  *)
(* delay after every batch of this run that was not the final one, whether *)
(* the batch completed normally or was contained with default records,     *)
(* and has not slept after the final batch.                                *)
C28_SleepAfterEveryBatchButLast ==
    (pc = "loop") =>
        \A k \in 1..Len(visited) :
            (visited[k] \in pauses) <=>
                (visited[k] + 1 < TotalBatches(Len(products)))

(* C15: a failure to write the partial file while persisting a batch       *)
(* (FILE_SYSTEM_ERROR) aborts the run: it is not contained as a batch      *)
(* failure, no default records are written for the batch and the progress  *)
(* record stays where it was.                                              *)
C15_PartialWriteFailureAborts ==
    [][(pc = "await" /\ wpc = "raised" /\ exc = FILE_SYSTEM_ERROR) =>
            /\ pc' = "failed"
            /\ UNCHANGED <<partial_file, progress_file>>]_vars

(* C16: a failed write of the progress file adds one to the file_system    *)
(* count and is swallowed (nothing is raised, the run goes on, the other   *)
(* counters are untouched); a failed write of the partial file adds one to *)
(* the file_system count and raises FILE_SYSTEM_ERROR to the caller.       *)
C16_WriteFailurePerStore ==
    [][(faults' = faults + 1) =>
            /\ (pc \in {"appended", "contained"}) =>
                  /\ error_counts' =
                        [error_counts EXCEPT !["file_system"] = @ + 1]
                  /\ pc' \in {"saved", "loop"}
                  /\ exc' = exc /\ wpc' = wpc
                  /\ UNCHANGED <<rate_limit_occurrences, total_wait_time,
                                 partial_file>>
            /\ (pc = "await" /\ wpc = "returned") =>
                  /\ error_counts' =
                        [error_counts EXCEPT !["file_system"] = @ + 1]
                  /\ exc' = FILE_SYSTEM_ERROR
                  /\ wpc' = "raised"
                  /\ pc' = "await"
            /\ (pc = "await" /\ wpc = "raised") =>
                  /\ exc' = FILE_SYSTEM_ERROR
                  /\ pc' = "failed"]_vars

(* An append failed and was raised, its batch was contained, and the       *)
(* progress write after it failed and was swallowed.                       *)
C16_Witness ==
    /\ crashes = 0 /\ faults = 2
    /\ pc = "loop" /\ i = 1
    /\ error_counts["file_system"] = 2
    /\ Len(ReadPartial(partial_file)) = BATCH_SIZE

----------------------------------------------------------------------------
(* Brand-identification stage (brand_identifier.py): its own endpoint      *)
(* call, progress record and partial file; it does not use AIProcessor.    *)

(* Texts the endpoint answers one search term with. *)
BrandTexts == {"No", "'Nike'"}

(* What the message of a failed endpoint call contains: a rate limit, a    *)
(* rejected key.                                                           *)
BrandSignals == {{"429"}, {"api key"}}

(* The endpoint's answer to one identify_brand call. *)
ItemOutcomes ==
    [ok : {TRUE}, text : BrandTexts, sig : {{}}]
        \cup [ok : {FALSE}, text : {""}, sig : BrandSignals]

(* content.strip().lower(), then strip('"').strip("'").strip() *)
CleanBrand(text) ==
    CASE text = "No" -> "no"
      [] text = "'Nike'" -> "nike"
      [] OTHER -> Lower(text)

(* identify_brand: the label returned, or the exception raised *)
IdentifyBrand(o) ==
    IF o.ok
    THEN [raised |-> "none", label |-> CleanBrand(o.text)]
    ELSE IF o.sig \cap {"rate limit", "429", "quota"} # {}
    THEN [raised |-> RATE_LIMIT_HIT, label |-> ""]
    ELSE IF o.sig \cap {"authentication", "api key"} # {}
    THEN [raised |-> AUTH_ERROR, label |-> ""]
    ELSE [raised |-> "none", label |-> "error"]

(* The exceptions asyncio.gather may propagate for a batch: that of any    *)
(* task that raised.                                                       *)
Raisers(outs) == {IdentifyBrand(outs[j]).raised : j \in 1..Len(outs)} \ {"none"}

(* The answers to the identify_brand calls of batch b. *)
BatchOutcomes(b) == [1..Len(SearchTerms(b)) -> ItemOutcomes]

(* brands of batch b, each with the row it was computed for *)
BatchLabels(b, outs) ==
    [j \in 1..Len(outs) |->
        [item |-> BatchStart(b) + j, label |-> IdentifyBrand(outs[j]).label]]

(* ['error'] * len(search_terms) *)
ErrorLabels(b) ==
    [j \in 1..Len(SearchTerms(b)) |-> [item |-> BatchStart(b) + j, label |-> "error"]]

(* save_progress(current_batch, total_batches, processed_count, all_brands) *)
BrandProgressRecord(current_batch, total_batches, count, brands) ==
    [current_batch |-> current_batch,
     total_batches |-> total_batches,
     processed_count |-> count,
     all_brands |-> brands,
     input_file |-> "search_terms_sample.csv"]

(* The rows with a Brand column: row j gets brands[j], whatever row that   *)
(* label was computed for.                                                 *)
LabelledRows(rows, brands) ==
    [j \in 1..Min(Len(rows), Len(brands)) |->
        [item |-> j, term |-> rows[j], Brand |-> brands[j].label]]

(* existing_progress = load_progress() *)
BrandLoadProgress ==
    /\ pc = "start"
    /\ existing_progress' = progress_file
    /\ pc' = IF progress_file # <<>> THEN "choose" ELSE "init"
    /\ UNCHANGED <<pipeVars, csvVars, perfVars, wrapVars, procVars, histVars, products, start_batch, i,
                   processed_count, all_brands, fileVars, scenVars>>

(* choice 1: resume *)
BrandChooseResume ==
    /\ pc = "choose"
    /\ pc' = "init"
    /\ UNCHANGED <<pipeVars, csvVars, perfVars, wrapVars, procVars, histVars, products, existing_progress,
                   start_batch, i, processed_count, all_brands, fileVars, scenVars>>

(* choice 2: start fresh; existing_progress = None, the files stay *)
BrandChooseFresh ==
    /\ pc = "choose"
    /\ existing_progress' = <<>>
    /\ pc' = "init"
    /\ UNCHANGED <<pipeVars, csvVars, perfVars, wrapVars, procVars, histVars, products, start_batch, i,
                   processed_count, all_brands, fileVars, scenVars>>

(* Initialize or resume progress *)
BrandInitLoop ==
    /\ pc = "init"
    /\ IF existing_progress # <<>>
       THEN /\ all_brands' = existing_progress[1].all_brands
            /\ start_batch' = existing_progress[1].current_batch
       ELSE /\ all_brands' = <<>>
            /\ start_batch' = 0
    /\ i' = start_batch'
    /\ pc' = "loop"
    /\ UNCHANGED <<pipeVars, csvVars, perfVars, wrapVars, procVars, histVars, products, existing_progress,
                   processed_count, fileVars, scenVars>>

(* brands = await process_batch(search_terms); all_brands.extend(brands) *)
BrandBatchReturns ==
    /\ pc = "loop"
    /\ i < TotalBatches(Len(products))
    /\ \E outs \in BatchOutcomes(i) :
          /\ Raisers(outs) = {}
          /\ all_brands' = all_brands \o BatchLabels(i, outs)
    /\ visited' = Append(visited, i)
    /\ requests' = Len(SearchTerms(i))
    /\ pc' = "extended"
    /\ UNCHANGED <<pipeVars, csvVars, perfVars, wrapVars, procVars, histVars, products, existing_progress,
                   start_batch, i, processed_count, fileVars, crashes, faults, pauses, failures,
                   window, matched>>

(* processed_count = len(all_brands); save_progress(i, ...) *)
BrandSaveProgress ==
    /\ pc = "extended"
    /\ processed_count' = Len(all_brands)
    /\ progress_file' =
          <<BrandProgressRecord(i, TotalBatches(Len(products)), Len(all_brands),
                                all_brands)>>
    /\ pc' = "recorded"
    /\ UNCHANGED <<pipeVars, csvVars, perfVars, wrapVars, procVars, histVars, products, existing_progress,
                   start_batch, i, all_brands, partial_file, final_file, scenVars>>

(* save_partial_results(rows, all_brands, headers) rewrites the partial    *)
(* file; then the delay and the next iteration.                            *)
BrandSavePartial ==
    /\ pc = "recorded"
    /\ partial_file' = <<LabelledRows(products, all_brands)>>
    /\ pauses' = IF i + 1 < TotalBatches(Len(products)) THEN pauses \cup {i} ELSE pauses
    /\ i' = i + 1
    /\ pc' = "loop"
    /\ UNCHANGED <<pipeVars, csvVars, perfVars, wrapVars, procVars, histVars, products, existing_progress,
                   start_batch, processed_count, all_brands, progress_file,
                   final_file, crashes, failures, faults, window, matched, visited, requests>>

(* except: "RATE_LIMIT_HIT" in str(e): stop gracefully, return False *)
BrandRateLimited ==
    /\ pc = "loop"
    /\ i < TotalBatches(Len(products))
    /\ \E outs \in BatchOutcomes(i) : RATE_LIMIT_HIT \in Raisers(outs)
    /\ visited' = Append(visited, i)
    /\ requests' = Len(SearchTerms(i))
    /\ pc' = "stopped"
    /\ UNCHANGED <<pipeVars, csvVars, perfVars, wrapVars, procVars, histVars, products, existing_progress,
                   start_batch, i, processed_count, all_brands, fileVars, crashes, faults, pauses,
                   failures, window, matched>>

(* except: any other exception: 'error' for the whole batch, continue *)
BrandBatchFails ==
    /\ pc = "loop"
    /\ i < TotalBatches(Len(products))
    /\ \E outs \in BatchOutcomes(i) : AUTH_ERROR \in Raisers(outs)
    /\ all_brands' = all_brands \o ErrorLabels(i)
    /\ visited' = Append(visited, i)
    /\ requests' = Len(SearchTerms(i))
    /\ i' = i + 1
    /\ UNCHANGED <<pipeVars, csvVars, perfVars, wrapVars, procVars, histVars, pc, products, existing_progress,
                   start_batch, processed_count, fileVars, crashes, faults, pauses, failures,
                   window, matched>>

(* row['Brand'] = all_brands[i] for every row (IndexError when the list is *)
(* short: the outer handler returns False), then the final file.           *)
BrandAssemble ==
    /\ pc = "loop"
    /\ ~(i < TotalBatches(Len(products)))
    /\ IF Len(all_brands) < Len(products)
       THEN /\ pc' = "failed"
            /\ UNCHANGED final_file
       ELSE /\ final_file' = <<LabelledRows(products, all_brands)>>
            /\ pc' = "written"
    /\ UNCHANGED <<pipeVars, csvVars, perfVars, wrapVars, procVars, histVars, products, existing_progress,
                   start_batch, i, processed_count, all_brands, progress_file,
                   partial_file, scenVars>>

(* os.remove(PROGRESS_FILE); os.remove(PARTIAL_OUTPUT_CSV) *)
BrandCleanup ==
    /\ pc = "written"
    /\ progress_file' = <<>>
    /\ partial_file' = <<>>
    /\ pc' = "completed"
    /\ UNCHANGED <<pipeVars, csvVars, perfVars, wrapVars, procVars, histVars, products, existing_progress,
                   start_batch, i, processed_count, all_brands, final_file,
                   scenVars>>

(* A new process: nothing but the files is left of the run before. *)
BrandVolatile ==
    /\ existing_progress' = <<>>
    /\ start_batch' = 0
    /\ i' = 0
    /\ processed_count' = 0
    /\ all_brands' = <<>>
    /\ visited' = <<>>
    /\ requests' = 0
    /\ pauses' = {}
    /\ pc' = "start"
    /\ UNCHANGED <<pipeVars, csvVars, wrapVars, procVars, perfVars, histVars, products, fileVars, failures,
                   faults, window, matched>>

BrandRunning == {"start", "choose", "init", "loop", "extended", "recorded", "written"}

(* The process is terminated and the stage is run again. *)
BrandCrash ==
    /\ pc \in BrandRunning
    /\ crashes < MaxCrashes
    /\ crashes' = crashes + 1
    /\ BrandVolatile

(* main returned False (rate limit, critical error); the stage is run      *)
(* again.                                                                  *)
BrandRunAgain ==
    /\ pc \in {"stopped", "failed"}
    /\ crashes < MaxCrashes
    /\ crashes' = crashes + 1
    /\ BrandVolatile

InitBrand ==
    /\ func = "brand"
    /\ policy = Deployed
    /\ batch = <<>>
    /\ attempt = 0
    /\ wpc = "idle"
    /\ exc = "none"
    /\ delay = 0
    /\ ret = <<>>
    /\ error_counts = ZeroCounts
    /\ rate_limit_occurrences = 0
    /\ total_wait_time = 0
    /\ NoLogs
    /\ NoCsv
    /\ NoPipeline
    /\ calls = 0
    /\ sleeps = <<>>
    /\ kinds = {}
    /\ lastSig = <<>>
    /\ lastResp = <<>>
    /\ ec0 = ZeroCounts
    /\ pc = "start"
    /\ products \in {[j \in 1..n |-> IF j % 2 = 1 THEN "sock" ELSE "Nike"] : n \in 0..MaxItems}
    /\ existing_progress = <<>>
    /\ start_batch = 0
    /\ i = 0
    /\ processed_count = 0
    /\ all_brands = <<>>
    /\ progress_file = <<>>
    /\ partial_file = <<>>
    /\ final_file = <<>>
    /\ crashes = 0
    /\ failures = 0
    /\ faults = 0
    /\ window = {}
    /\ matched = FALSE
    /\ visited = <<>>
    /\ requests = 0
    /\ pauses = {}

NextBrand ==
    \/ BrandLoadProgress
    \/ BrandChooseResume
    \/ BrandChooseFresh
    \/ BrandInitLoop
    \/ BrandBatchReturns
    \/ BrandSaveProgress
    \/ BrandSavePartial
    \/ BrandRateLimited
    \/ BrandBatchFails
    \/ BrandAssemble
    \/ BrandCleanup
    \/ BrandCrash
    \/ BrandRunAgain

SpecBrand == InitBrand /\ [][NextBrand]_vars

----------------------------------------------------------------------------
(* Properties of the brand-identification stage *)

(* C4: a run resumed from a saved progress record starts with the first    *)
(* batch whose labels are not in the saved list, and after completion the  *)
(* label list has exactly one label per input row, label j being the one   *)
(* computed for row j.                                                     *)
C4_BrandResumeKeepsLabelsAligned ==
    (pc = "completed" /\ existing_progress # <<>>) =>
        /\ BatchStart(start_batch) >= Len(existing_progress[1].all_brands)
        /\ Len(all_brands) = Len(products)
        /\ \A j \in 1..Len(all_brands) : all_brands[j].item = j

(* C13: a stage run is not aborted because a batch hit a rate limit or     *)
(* exhausted its retries: every step a run takes on a batch of the loop    *)
(* leaves it in the loop, on the way to the next batch and to completion.  *)
C13_BatchFailureNeverAbortsRun ==
    [][(pc = "loop" /\ i < TotalBatches(Len(products)) /\ pc' # "start") =>
            pc' \in {"loop", "await", "extended"}]_vars

(* C14: the persisted progress never counts items whose rows are not in    *)
(* the partial file yet: the progress record advancing past a batch is     *)
(* written only after that batch's rows.                                   *)
C14_ProgressNeverAheadOfPartial ==
    (pc \notin {"off", "completed"} /\ progress_file # <<>>) =>
        Len(ReadPartial(partial_file)) >= progress_file[1].processed_count

(* C27: a stage sends the completion endpoint one request per batch        *)
(* attempt, holding all items of the batch, never one per item: when the   *)
(* call for a batch has returned, the requests sent for the batch are as   *)
(* many as its attempts (one when nothing failed), so that a run without   *)
(* failures sends as many requests as it has batches.                      *)
C27_OneRequestPerBatchAttempt ==
    /\ (pc = "await" /\ wpc = "returned") => requests = attempt + 1
    /\ (pc = "extended") => requests = 1

(* A save_progress call that succeeded. *)
SavedProgress ==
    /\ pc \in {"appended", "contained"}
    /\ pc' \in {"saved", "loop"}
    /\ faults' = faults

(* C32: save_progress overwrites: after a successful save the progress     *)
(* file holds a single record, with the current_batch, processed_count and *)
(* total_items of that save; the file changes only by a save or a cleanup; *)
(* load_progress returns the stored record, and returns absent when there  *)
(* is no file or the file cannot be decoded.                               *)
C32_SaveOverwritesLoadReturnsLast ==
    [][/\ SavedProgress =>
             /\ Len(progress_file') = 1
             /\ progress_file'[1] # Undecodable
             /\ progress_file'[1].current_batch = i + 1
             /\ progress_file'[1].processed_count = processed_count'
             /\ progress_file'[1].total_items = Len(products)
       /\ (progress_file' # progress_file) =>
             \/ pc \in {"appended", "contained"} /\ pc' \in {"saved", "loop"}
             \/ pc \in {"choose", "written"} /\ progress_file' = <<>>
       /\ (pc = "start" /\ pc' # "start") =>
             existing_progress' =
                IF progress_file = <<>> \/ progress_file = <<Undecodable>>
                THEN <<>> ELSE progress_file]_vars

(* A run loaded the record of the second of two successful saves. *)
C32_Witness ==
    /\ pc = "choose"
    /\ faults = 1
    /\ existing_progress = progress_file
    /\ existing_progress[1].current_batch = 2
    /\ existing_progress[1].processed_count = 3

(* C34: cleanup deletes the partial file only when the final file written  *)
(* just before holds one row per input item.                               *)
C34_CleanupOnlyAfterCompleteFinalFile ==
    [][(pc = "written" /\ partial_file # <<>> /\ partial_file' = <<>>) =>
          /\ final_file # <<>>
          /\ Len(final_file[1]) = Len(products)]_vars

(* C35: when the batch loop of the product-validation stage begins without *)
(* a loaded ProgressRecord, the partial file holds no rows.                *)
C35_FreshStartHasNoStaleRows ==
    (pc = "loop" /\ existing_progress = <<>> /\ visited = <<>>) =>
        ReadPartial(partial_file) = <<>>

(* The stores between two batches of a run that began with empty stores    *)
(* and was not interrupted.                                                *)
BetweenBatches ==
    /\ crashes = 0
    /\ pc \in {"saved", "loop", "written"}
    /\ progress_file # <<>>

(* C36: in an uninterrupted product-validation run from empty stores,      *)
(* after every batch the partial file holds as many rows as the            *)
(* ProgressRecord's processed_count, which is min(current_batch * batch    *)
(* size, total_items) and at most total_items; current_batch and           *)
(* processed_count never decrease.                                         *)
C36_RowsMatchProgressRecord ==
    [][/\ BetweenBatches' =>
             /\ Len(ReadPartial(partial_file')) = progress_file'[1].processed_count
             /\ progress_file'[1].processed_count =
                   Min(progress_file'[1].current_batch * BATCH_SIZE,
                       progress_file'[1].total_items)
             /\ progress_file'[1].processed_count <= progress_file'[1].total_items
             /\ progress_file'[1].total_items = Len(products)
       /\ (crashes' = 0 /\ progress_file # <<>> /\ progress_file' # <<>>) =>
             /\ progress_file'[1].current_batch >= progress_file[1].current_batch
             /\ progress_file'[1].processed_count >= progress_file[1].processed_count]_vars

(* Two batches done, the second one contained with defaults. *)
C36_Witness ==
    /\ BetweenBatches
    /\ pc = "loop"
    /\ progress_file[1].current_batch = 2
    /\ Len(ReadPartial(partial_file)) = 3
    /\ failures > 0
    /\ partial_file[1][3] = CsvRow(ErrorRows(1)[1])

(* C37: for each batch index processed in a run, one set of len(batch)     *)
(* rows is appended to the partial file, the real records or the default   *)
(* records: in a first run, when the loop is about to take batch i the     *)
(* file holds one row for each item of the batches before i, in order.     *)
C37_OneSetOfRowsPerBatch ==
    (crashes = 0 /\ pc = "loop") =>
        LET rows == ReadPartial(partial_file)
        IN /\ Len(rows) = Min(i * BATCH_SIZE, Len(products))
           /\ \A r \in 1..Len(rows) : rows[r].item = r

(* One run of the product-validation stage from empty stores, with no     *)
(* termination from outside.                                               *)
NextRun ==
    \/ Start
    \/ InitLoop
    \/ CallBatch
    \/ ProductReply
    \/ ProductFailure
    \/ CatchRetryable
    \/ SleepDone
    \/ AppendResults
    \/ SaveProgress
    \/ NextBatch
    \/ ContainFailure
    \/ SaveProgressContained
    \/ Assemble
    \/ AssembleFails
    \/ Cleanup

(* The run is not starved: the process executes its next statement, an     *)
(* awaited endpoint call returns or raises, an awaited sleep elapses.      *)
SpecLive == Init /\ [][NextRun]_vars /\ WF_vars(NextRun)

(* main has returned: True after the cleanup, False from the outer handler *)
Terminated == pc \in {"completed", "failed"}

(* C38: whatever the endpoint answers, a stage run over a finite input     *)
(* ends in Completed or Failed; the batch loop takes at most total_batches *)
(* iterations, and under the deployed policy a batch makes at most 6       *)
(* endpoint calls and sleeps at most 31 seconds of backoff.                *)
C38_TerminatesWithinBounds ==
    /\ [](/\ Len(visited) <= TotalBatches(Len(products))
          /\ calls <= 6
          /\ SumSeq(sleeps) <= 31)
    /\ <>[]Terminated

(* The endpoint failed on every call of a batch. *)
C38_Witness ==
    /\ pc = "await" /\ wpc = "raised"
    /\ calls = 6
    /\ SumSeq(sleeps) = 31
    /\ Len(visited) = TotalBatches(Len(products))

(* C39: a failed endpoint call is classified by the first of the tests     *)
(* rate-limit, authentication, network that its message passes, also when  *)
(* the message passes several; it gets one kind and adds one to one error  *)
(* counter, leaving the others alone; rate_limit_occurrences grows exactly  *)
(* when the rate_limit counter does.                                       *)
C39_FirstMatchingTestOneCounter ==
    [][(func \in {"brand", "product"} /\ calls' = calls + 1 /\ lastSig' # <<>>) =>
          LET sig == lastSig'[1]
              rate == "429" \in sig \/ "Rate limit" \in sig
              auth == "401" \in sig \/ "authentication" \in sig
              net == "timeout" \in sig \/ "network" \in sig
              key == IF rate THEN "rate_limit"
                     ELSE IF auth THEN "auth"
                     ELSE IF net THEN "network"
                     ELSE "parsing"
          IN /\ \A k \in ErrorKeys :
                   error_counts'[k] = error_counts[k] + (IF k = key THEN 1 ELSE 0)
             /\ rate_limit_occurrences' =
                   rate_limit_occurrences + (IF key = "rate_limit" THEN 1 ELSE 0)
             /\ error_counts'["rate_limit"] = rate_limit_occurrences'
             /\ CASE key = "rate_limit" -> wpc' = "caught" /\ exc' = RATE_LIMIT_HIT
                  [] key = "auth" -> wpc' = "caught" /\ exc' = AUTH_ERROR
                  [] key = "network" -> wpc' = "caught" /\ exc' = NETWORK_ERROR
                  [] OTHER -> wpc' = "returned" /\ exc' = exc]_vars

(* A failure with a '401' and a rate-limit indication was counted as a     *)
(* rate limit, on the retry after another rate-limit failure.              *)
C39_Witness ==
    /\ func = "product"
    /\ lastSig = <<{"401", "Rate limit"}>>
    /\ exc = RATE_LIMIT_HIT
    /\ error_counts["rate_limit"] = 2
    /\ rate_limit_occurrences = 2
    /\ error_counts["auth"] = 0 /\ error_counts["network"] = 0

-----------------------------------------------------------------------------
(* The pipeline facade: pipeline.main runs the three stage scripts as      *)
(* child processes, one after the other, the product-validation stage      *)
(* being the stage modelled above.                                         *)

(* run_script: subprocess.run(..., check=True) raises CalledProcessError   *)
(* for a non-zero exit code; True is returned otherwise.                   *)
RunScript(code) == code = 0

InitPipeline ==
    /\ func = "product"
    /\ policy = Deployed
    /\ batch = <<>>
    /\ attempt = 0
    /\ wpc = "idle"
    /\ exc = "none"
    /\ delay = 0
    /\ ret = <<>>
    /\ error_counts = ZeroCounts
    /\ rate_limit_occurrences = 0
    /\ total_wait_time = 0
    /\ NoLogs
    /\ NoCsv
    /\ calls = 0
    /\ sleeps = <<>>
    /\ kinds = {}
    /\ lastSig = <<>>
    /\ lastResp = <<>>
    /\ ec0 = ZeroCounts
    /\ pc = "off"
    /\ products \in {[j \in 1..n |-> IF j % 2 = 1 THEN "sock" ELSE "Nike"] : n \in 0..MaxItems}
    /\ existing_progress = <<>>
    /\ start_batch = 0
    /\ i = 0
    /\ processed_count = 0
    /\ all_brands = <<>>
    /\ progress_file = <<>>
    /\ partial_file = <<>>
    /\ final_file = <<>>
    /\ crashes = 0
    /\ failures = 0
    /\ faults = 0
    /\ window = {}
    /\ matched = FALSE
    /\ visited = <<>>
    /\ requests = 0
    /\ pauses = {}
    /\ ppc = "check"
    /\ reported = <<>>
    /\ exit_code = <<>>

(* The scripts and the input file are looked for; main returns False when  *)
(* one is missing.                                                         *)
PipelineCheck ==
    /\ ppc = "check"
    /\ \E present \in BOOLEAN :
          IF present
          THEN ppc' = "step0" /\ exit_code' = exit_code
          ELSE ppc' = "exit" /\ exit_code' = <<1>>
    /\ UNCHANGED <<wrapVars, procVars, perfVars, histVars, stageVars, fileVars, scenVars,
                   csvVars, reported>>

(* STEP 1: step0_trend_filter.py.  Its main catches its exceptions, prints *)
(* the error and returns; its __main__ block ends normally either way.  An *)
(* interrupted child ends with a non-zero code.                            *)
RunTrendFilter ==
    /\ ppc = "step0"
    /\ \E outcome \in {"done", "error", "interrupted"} :
          LET code == IF outcome = "interrupted" THEN 1 ELSE 0
          IN /\ reported' = Append(reported, [stage |-> 0, outcome |-> outcome])
             /\ IF RunScript(code)
                THEN ppc' = "step1" /\ exit_code' = exit_code
                ELSE ppc' = "exit" /\ exit_code' = <<1>>
    /\ UNCHANGED <<wrapVars, procVars, perfVars, histVars, stageVars, fileVars, scenVars,
                   csvVars>>

(* STEP 2: the brand-identification script.  Its main returns True, or     *)
(* False (rate limit during a batch, outer handler); without an API key    *)
(* the script calls exit(1).                                               *)
RunBrandIdentifier ==
    /\ ppc = "step1"
    /\ \E outcome \in {"true", "false", "exit1"} :
          LET code == IF outcome = "exit1" THEN 1 ELSE StageExitCode(outcome = "true")
          IN /\ reported' = Append(reported, [stage |-> 1, outcome |-> outcome])
             /\ IF RunScript(code)
                THEN ppc' = "step2" /\ exit_code' = exit_code
                ELSE ppc' = "exit" /\ exit_code' = <<1>>
    /\ UNCHANGED <<wrapVars, procVars, perfVars, histVars, stageVars, fileVars, scenVars,
                   csvVars>>

(* STEP 3: the product-validation script is started. *)
StartProductValidator ==
    /\ ppc = "step2" /\ pc = "off"
    /\ ppc' = "running"
    /\ pc' = "start"
    /\ UNCHANGED <<wrapVars, procVars, perfVars, histVars, products, existing_progress,
                   start_batch, i, processed_count, all_brands, fileVars, scenVars, csvVars,
                   reported, exit_code>>

(* The product-validation script has ended: its main returned True or      *)
(* False; run_script sees the exit code; main of the pipeline returns and  *)
(* sys.exit(0 if success else 1).                                          *)
ProductValidatorExits ==
    /\ ppc = "running" /\ Terminated
    /\ LET success == pc = "completed"
           code == StageExitCode(success)
       IN /\ reported' =
                Append(reported, [stage |-> 2, outcome |-> IF success THEN "true" ELSE "false"])
          /\ exit_code' = <<IF RunScript(code) THEN 0 ELSE 1>>
    /\ ppc' = "exit"
    /\ UNCHANGED <<wrapVars, procVars, perfVars, histVars, stageVars, fileVars, scenVars,
                   csvVars>>

(* The product-validation script is interrupted: the child process is     *)
(* gone and has ended with a non-zero exit code.                           *)
ProductValidatorInterrupted ==
    /\ ppc = "running" /\ pc \in Running
    /\ reported' = Append(reported, [stage |-> 2, outcome |-> "interrupted"])
    /\ exit_code' = <<IF RunScript(1) THEN 0 ELSE 1>>
    /\ ppc' = "exit"
    /\ Volatile
    /\ pc' = "off"
    /\ UNCHANGED <<products, fileVars, crashes, failures, faults, window, csvVars>>

NextPipeline ==
    \/ PipelineCheck
    \/ RunTrendFilter
    \/ RunBrandIdentifier
    \/ StartProductValidator
    \/ Start
    \/ InitLoop
    \/ CallBatch
    \/ ProductReply
    \/ ProductFailure
    \/ CatchRetryable
    \/ SleepDone
    \/ AppendResults
    \/ SaveProgress
    \/ NextBatch
    \/ ContainFailure
    \/ SaveProgressContained
    \/ Assemble
    \/ AssembleFails
    \/ Cleanup
    \/ ProductValidatorExits
    \/ ProductValidatorInterrupted

SpecPipeline == InitPipeline /\ [][NextPipeline]_vars

(* C40: the pipeline runs trend filtering, brand identification and        *)
(* product validation in that order; no stage is started after a stage     *)
(* whose main returned False, and the pipeline then exits with code 1.     *)
C40_StopsAfterFailedStage ==
    /\ \A k \in 1..Len(reported) : reported[k].stage = k - 1
    /\ \A k \in 1..Len(reported) :
          reported[k].outcome = "false" =>
             /\ Len(reported) = k
             /\ ppc = "exit"
             /\ exit_code = <<1>>

====
